---- MODULE Spec2Model ----
(***************************************************************************)
(* A model of prompter-cli: template discovery and option-menu             *)
(* construction of the interactive prompter, template lookup by name, the  *)
(* layered configuration manager, the structured errors and their          *)
(* recovery, the interactive collection of missing inputs, the steps of    *)
(* Run and the text helpers of the templates.                              *)
(*                                                                         *)
(* Strings are sequences of one-character strings, so that the substring,  *)
(* suffix, replace and trim operations of package strings are computed     *)
(* character by character, and directory listings are sorted by filename   *)
(* in byte order, as os.ReadDir returns them.                              *)
(***************************************************************************)
EXTENDS Integers, Sequences, FiniteSets, TLC

VARIABLES
    fs,         \* the prompts location: subdir -> Missing | Unreadable | Readable(entries)
    op,         \* the last prompter operation: "init" | "find" | "build"
    subdir,     \* the subdir argument of the last findTemplates call
    templates,  \* the []string returned by the last findTemplates call
    findErr,    \* TRUE when the last findTemplates call returned an error
    options,    \* the []string returned by the last buildOptionsWithNone call
    loadName,   \* the argument of the last LoadTemplate call
    loadResult, \* what the last LoadTemplate call returned
    cfgFile,    \* config manager: the values it holds, read from the configuration file or merged in
    cfgEnv,     \* the PROMPTER_* environment variables of the process
    cfgFlags,   \* config manager: the values recorded by SetFlag
    resolved,   \* what the last Resolve call returned
    candidate,  \* the argument of Validate
    validateErr,\* what the last Validate call returned
    pathIn,     \* the argument of expandPath
    pathHome,   \* the home directory of the caller of expandPath
    pathOut,    \* what the last expandPath call returned
    err,        \* the error at hand: nil or a chain of layers
    made,       \* the last constructor call: its arguments and what it returned
    recovery,   \* the last RecoverFromError call: its argument, result and effects
    recoverable,\* the last IsRecoverableError call: its argument and result
    userHome,   \* "ok", or "unavailable" when os.UserHomeDir fails
    configDir,  \* ~/.config/prompter: "missing" | "exists" | "unknown"
    runRequest, \* the *models.PromptRequest handed to Run and CollectMissingInputs
    collected,  \* the last CollectMissingInputs call: request at entry, error, questions
    runPc,      \* Run: the step it is about to call, "return" when it has returned
    runCalls,   \* Run: the steps it has called, in order, with their outcome
    runErr,     \* Run: the error it returns
    truncIn,    \* the string handed to truncateString
    truncLen,   \* the maxLen handed to truncateString
    truncOut,   \* what the last truncateString call returned
    helperIn,   \* the text handed to the template helper
    helperCall, \* the helper calls made: "none" | "indent" | "dedent" | "dedent again"
    helperN,    \* the n handed to indent
    helperOut   \* what the helper calls returned, in order

prompterVars == <<op, subdir, templates, findErr, options>>
loadVars == <<loadName, loadResult>>
configVars == <<cfgFile, cfgEnv, cfgFlags, resolved>>
validateVars == <<candidate, validateErr>>
pathVars == <<pathIn, pathHome, pathOut>>
errorVars == <<err, made, recovery, recoverable, userHome, configDir>>
collectVars == <<runRequest, collected>>
runVars == <<runPc, runCalls, runErr>>
truncateVars == <<truncIn, truncLen, truncOut>>
helperVars == <<helperIn, helperCall, helperN, helperOut>>
appVars == <<pathVars, errorVars, collectVars, runVars, truncateVars, helperVars>>
vars == <<fs, prompterVars, loadVars, configVars, validateVars, appVars>>

(***************************************************************************)
(* Bounds of the model.                                                    *)
(***************************************************************************)
\* the largest number of entries of a directory drawn from the catalogue
MaxEntries == 3
\* the largest number of pieces (".", "a", "default") of a generated stem
MaxPieces == 5
\* the largest number of files of a subdirectory LoadTemplate searches
MaxLoadEntries == 2

(***************************************************************************)
(* Characters and their byte order.                                        *)
(***************************************************************************)
Lower == <<"a","b","c","d","e","f","g","h","i","j","k","l","m",
           "n","o","p","q","r","s","t","u","v","w","x","y","z">>
Upper == <<"A","B","C","D","E","F","G","H","I","J","K","L","M",
           "N","O","P","Q","R","S","T","U","V","W","X","Y","Z">>
Digits == <<"0","1","2","3","4","5","6","7","8","9">>

\* the characters of the model in increasing byte value
ByteOrder == <<"-", ".", "/">> \o Digits \o <<":">> \o Upper \o <<"_">> \o Lower \o <<"~">>

Rank(c) == CHOOSE i \in 1..Len(ByteOrder) : ByteOrder[i] = c

\* Go's string comparison a < b: bytewise lexicographic
RECURSIVE StrLess(_, _)
StrLess(a, b) ==
    IF b = <<>> THEN FALSE
    ELSE IF a = <<>> THEN TRUE
    ELSE IF Head(a) = Head(b) THEN StrLess(Tail(a), Tail(b))
    ELSE Rank(Head(a)) < Rank(Head(b))

(***************************************************************************)
(* Package strings.                                                        *)
(***************************************************************************)
HasPrefix(s, prefix) ==
    /\ Len(s) >= Len(prefix)
    /\ SubSeq(s, 1, Len(prefix)) = prefix

HasSuffix(s, suffix) ==
    /\ Len(s) >= Len(suffix)
    /\ SubSeq(s, Len(s) - Len(suffix) + 1, Len(s)) = suffix

TrimSuffix(s, suffix) ==
    IF HasSuffix(s, suffix) THEN SubSeq(s, 1, Len(s) - Len(suffix)) ELSE s

\* the positions at which substr occurs in s
Occurrences(s, substr) ==
    {i \in 1..(Len(s) - Len(substr) + 1) : SubSeq(s, i, i + Len(substr) - 1) = substr}

\* strings.Index, 1-based; 0 when substr does not occur
Index(s, substr) ==
    IF Occurrences(s, substr) = {} THEN 0
    ELSE CHOOSE i \in Occurrences(s, substr) : \A j \in Occurrences(s, substr) : i <= j

Contains(s, substr) == Index(s, substr) # 0

\* strings.ReplaceAll for a non-empty old: non-overlapping matches, left to right
RECURSIVE ReplaceAll(_, _, _)
ReplaceAll(s, old, new) ==
    LET i == Index(s, old) IN
    IF i = 0 THEN s
    ELSE SubSeq(s, 1, i - 1) \o new \o ReplaceAll(SubSeq(s, i + Len(old), Len(s)), old, new)

RECURSIVE TrimLeft(_, _)
TrimLeft(s, c) == IF s # <<>> /\ Head(s) = c THEN TrimLeft(Tail(s), c) ELSE s

RECURSIVE TrimRight(_, _)
TrimRight(s, c) ==
    IF s # <<>> /\ s[Len(s)] = c THEN TrimRight(SubSeq(s, 1, Len(s) - 1), c) ELSE s

\* strings.Trim with a cutset of one character
Trim(s, c) == TrimRight(TrimLeft(s, c), c)

LowerChar(c) ==
    IF \E i \in 1..Len(Upper) : Upper[i] = c
    THEN Lower[CHOOSE i \in 1..Len(Upper) : Upper[i] = c]
    ELSE c

ToLower(s) == [i \in 1..Len(s) |-> LowerChar(s[i])]

(***************************************************************************)
(* The words the file names of the model are made of.                      *)
(***************************************************************************)
Dot == <<".">>
W_md == <<"m","d">>
W_txt == <<"t","x","t">>
W_default == <<"d","e","f","a","u","l","t">>
W_a == <<"a">>
W_example == <<"e","x","a","m","p","l","e">>
W_another == <<"a","n","o","t","h","e","r">>
W_template == <<"t","e","m","p","l","a","t","e">>
W_regular == <<"r","e","g","u","l","a","r">>
W_not == <<"n","o","t">>
W_drafts == <<"d","r","a","f","t","s">>
W_None == <<"N","o","n","e">>

\* the template suffix, the two default markers and the sentinel of the menu
MdSuffix == Dot \o W_md
DefaultInfix == Dot \o W_default \o Dot
DefaultSuffix == Dot \o W_default
None == W_None

(***************************************************************************)
(* The filesystem under the prompts location.                              *)
(***************************************************************************)
Kinds == {"pre", "post"}
\* os.Stat reports that the directory does not exist
Missing == [state |-> "missing", entries |-> {}]
\* a directory the process may not read: os.Stat finds it and os.ReadDir
\* fails with "permission denied"
Unreadable == [state |-> "unreadable", entries |-> {}]
\* a directory os.ReadDir lists
Readable(d) == [state |-> "dir", entries |-> d]

File(name) == [name |-> name, isDir |-> FALSE]
Dir(name) == [name |-> name, isDir |-> TRUE]

Catalogue == {
    File(W_example \o DefaultInfix \o W_md),                  \* example.default.md
    File(W_another \o DefaultInfix \o W_template \o MdSuffix),  \* another.default.template.md
    File(W_example \o DefaultInfix \o W_a \o MdSuffix),       \* example.default.a.md
    File(W_regular \o <<"1">> \o MdSuffix),                   \* regular1.md
    File(W_regular \o <<"2">> \o MdSuffix),                   \* regular2.md
    File(W_template \o <<"1">> \o MdSuffix),                  \* template1.md
    File(W_template \o <<"2">> \o MdSuffix),                  \* template2.md
    File(W_not \o <<"-">> \o W_template \o Dot \o W_txt),     \* not-template.txt
    File(W_example \o MdSuffix),                              \* example.md
    File(W_example \o Dot \o W_a \o MdSuffix),                \* example.a.md
    File(W_a \o DefaultInfix \o W_a \o DefaultInfix \o W_a \o MdSuffix), \* a.default.a.default.a.md
    File(W_regular \o <<"1">>),                               \* regular1 (no suffix)
    Dir(W_drafts),                                            \* drafts/
    Dir(W_another \o DefaultSuffix \o MdSuffix)               \* another.default.md/
}

CatalogueDirs == {d \in SUBSET Catalogue : Cardinality(d) <= MaxEntries}

\* generated stems: every sequence of at most MaxPieces pieces
Pieces == {Dot, W_a, W_default}

RECURSIVE Flatten(_)
Flatten(ps) == IF ps = <<>> THEN <<>> ELSE Head(ps) \o Flatten(Tail(ps))

GenStems == {Flatten(ps) : ps \in UNION {[1..n -> Pieces] : n \in 0..MaxPieces}}

\* directories that hold one generated template file
GenDirs == {{File(s \o MdSuffix)} : s \in GenStems}

DirStates == {Readable(d) : d \in CatalogueDirs \cup GenDirs} \cup {Missing, Unreadable}

\* os.ReadDir: the entries sorted by filename
RECURSIVE ReadDir(_)
ReadDir(d) ==
    IF d = {} THEN <<>>
    ELSE LET first == CHOOSE e \in d : \A o \in d \ {e} : StrLess(e.name, o.name)
         IN <<first>> \o ReadDir(d \ {first})

(***************************************************************************)
(* internal/interactive/prompter.go                                        *)
(***************************************************************************)
\* IsTemplateEntry without the IsDir test
IsTemplateEntry_NoDirTest(e) == HasSuffix(e.name, MdSuffix)

\* the entries findTemplates and buildOptionsWithNone look at
IsTemplateEntry(e) == ~e.isDir /\ HasSuffix(e.name, MdSuffix)

Stem(e) == TrimSuffix(e.name, MdSuffix)

\* Classify replacing only the first occurrence of the marker
Classify_ReplaceFirst(name) ==
    IF Contains(name, DefaultInfix)
    THEN [display |-> Trim(SubSeq(name, 1, Index(name, DefaultInfix) - 1) \o Dot
                           \o SubSeq(name, Index(name, DefaultInfix) + Len(DefaultInfix), Len(name)),
                           "."),
          isDefault |-> TRUE]
    ELSE IF HasSuffix(name, DefaultSuffix)
    THEN [display |-> TrimSuffix(name, DefaultSuffix), isDefault |-> TRUE]
    ELSE [display |-> name, isDefault |-> FALSE]

\* Classify without the branch for a marker at the end of the stem
Classify_NoSuffixBranch(name) ==
    IF Contains(name, DefaultInfix)
    THEN [display |-> Trim(ReplaceAll(name, DefaultInfix, Dot), "."), isDefault |-> TRUE]
    ELSE [display |-> name, isDefault |-> FALSE]

\* the body of the loop of findTemplates for one stem: the display name and
\* the list (default or regular) it is appended to
Classify(name) ==
    IF Contains(name, DefaultInfix)
    THEN [display |-> Trim(ReplaceAll(name, DefaultInfix, Dot), "."), isDefault |-> TRUE]
    ELSE IF HasSuffix(name, DefaultSuffix)
    THEN [display |-> TrimSuffix(name, DefaultSuffix), isDefault |-> TRUE]
    ELSE [display |-> name, isDefault |-> FALSE]

\* defaultTemplates at the end of the loop of findTemplates
DefaultTemplatesOf(entries) ==
    LET keep == SelectSeq(entries, LAMBDA e : IsTemplateEntry(e) /\ Classify(Stem(e)).isDefault)
    IN [i \in 1..Len(keep) |-> Classify(Stem(keep[i])).display]

\* regularTemplates at the end of the loop of findTemplates
RegularTemplatesOf(entries) ==
    LET keep == SelectSeq(entries, LAMBDA e : IsTemplateEntry(e) /\ ~Classify(Stem(e)).isDefault)
    IN [i \in 1..Len(keep) |-> Classify(Stem(keep[i])).display]

\* findTemplates appending the regular templates before the default ones
findTemplates_RegularsFirst(d) ==
    IF d.state = "missing" THEN [templates |-> <<>>, err |-> FALSE]
    ELSE IF d.state = "unreadable" THEN [templates |-> <<>>, err |-> TRUE]
    ELSE [templates |-> RegularTemplatesOf(ReadDir(d.entries))
                        \o DefaultTemplatesOf(ReadDir(d.entries)),
          err |-> FALSE]

\* findTemplates reporting a missing directory as an error
findTemplates_MissingIsError(d) ==
    IF d.state # "dir" THEN [templates |-> <<>>, err |-> TRUE]
    ELSE [templates |-> DefaultTemplatesOf(ReadDir(d.entries))
                        \o RegularTemplatesOf(ReadDir(d.entries)),
          err |-> FALSE]

\* findTemplates: the templates returned, and whether an error is returned
findTemplates(d) ==
    IF d.state = "missing" THEN [templates |-> <<>>, err |-> FALSE]
    ELSE IF d.state = "unreadable" THEN [templates |-> <<>>, err |-> TRUE]
    ELSE [templates |-> DefaultTemplatesOf(ReadDir(d.entries))
                        \o RegularTemplatesOf(ReadDir(d.entries)),
          err |-> FALSE]

\* the display name buildOptionsWithNone derives from a stem it takes as default
DefaultDisplayName(name) ==
    IF Contains(name, DefaultInfix)
    THEN Trim(ReplaceAll(name, DefaultInfix, Dot), ".")
    ELSE TrimSuffix(name, DefaultSuffix)

\* the map defaultNames of buildOptionsWithNone
DefaultNames(d) ==
    {DefaultDisplayName(Stem(e)) :
        e \in {x \in d : /\ IsTemplateEntry(x)
                         /\ \/ Contains(Stem(x), DefaultInfix)
                            \/ HasSuffix(Stem(x), DefaultSuffix)}}

\* a menu that lists "None" once, leaving out a template of that name
buildOptionsWithNone_OneNone(ts, d) ==
    IF d.state # "dir"
    THEN <<None>> \o SelectSeq(ts, LAMBDA t : t # None)
    ELSE SelectSeq(ts, LAMBDA t : t \in DefaultNames(d.entries))
         \o <<None>>
         \o SelectSeq(ts, LAMBDA t : t \notin DefaultNames(d.entries) /\ t # None)

buildOptionsWithNone(ts, d) ==
    IF d.state # "dir"
    THEN <<None>> \o ts
    ELSE SelectSeq(ts, LAMBDA t : t \in DefaultNames(d.entries))
         \o <<None>>
         \o SelectSeq(ts, LAMBDA t : t \notin DefaultNames(d.entries))

\* the longest list of templates handed to buildOptionsWithNone by a caller
\* other than promptForPreTemplate and promptForPostTemplate
MaxTemplates == 2

\* the names in those lists: a display name that is a default in some
\* directories and a regular in others, and the sentinel
TemplateNames == {W_example, None}
TemplateLists == UNION {[1..n -> TemplateNames] : n \in 0..MaxTemplates}

(***************************************************************************)
(* internal/template: LoadTemplate(name).  The processor's implementation  *)
(* is outside the files modelled here; the lookup follows its              *)
(* specification: a name that is an absolute path is the file to load;     *)
(* for any other name both subdirectories are searched, pre before post,   *)
(* each in the order os.ReadDir lists it, and a name matches a template    *)
(* file when it equals, ignoring case, the stem or, for a file with the    *)
(* default marker, the display name.                                       *)
(***************************************************************************)
W_strict == <<"s","t","r","i","c","t">>
W_test == <<"t","e","s","t">>
W_nonexistent == <<"n","o","n","e","x","i","s","t","e","n","t">>
W_Another == <<"A","n","o","t","h","e","r">>
W_Template == <<"T","e","m","p","l","a","t","e">>
W_Example == <<"E","x","a","m","p","l","e">>

UpperChar(c) ==
    IF \E i \in 1..Len(Lower) : Lower[i] = c
    THEN Upper[CHOOSE i \in 1..Len(Lower) : Lower[i] = c]
    ELSE c

ToUpper(s) == [i \in 1..Len(s) |-> UpperChar(s[i])]

\* the template files the lookup is tried on
LoadCatalogue == {
    File(W_strict \o DefaultInfix \o W_md),                          \* strict.default.md
    File(W_example \o DefaultInfix \o W_md),                         \* example.default.md
    File(W_regular \o MdSuffix),                                     \* regular.md
    File(W_test \o <<"-">> \o W_template \o MdSuffix),               \* test-template.md
    File(W_Another \o <<"-">> \o W_Template \o MdSuffix),            \* Another-Template.md
    File(W_Example \o MdSuffix)                                      \* Example.md
}

LoadDirs ==
    {Readable(d) : d \in {x \in SUBSET LoadCatalogue : Cardinality(x) <= MaxLoadEntries}}
    \cup {Missing}

\* the directory the processor is created on
TemplatesDir == <<"/", "t">>

\* filepath.Join(templatesDir, subdirectory, filename)
TemplatePath(k, filename) ==
    TemplatesDir \o <<"/">> \o (IF k = "pre" THEN <<"p","r","e">> ELSE <<"p","o","s","t">>)
                 \o <<"/">> \o filename

\* the names asked for
LoadNames == {
    ToUpper(W_strict),
    W_example, W_example \o DefaultSuffix,
    W_regular,
    ToUpper(W_test \o <<"-">> \o W_template),
    W_another \o <<"-">> \o W_template,
    W_nonexistent,
    TemplatePath("pre", W_test \o <<"-">> \o W_template \o MdSuffix),
    TemplatePath("post", W_strict \o DefaultInfix \o W_md)
}

\* LoadNameMatches comparing the case too
LoadNameMatches_CaseSensitive(name, e) ==
    \/ Stem(e) = name
    \/ Classify(Stem(e)).isDefault /\ Classify(Stem(e)).display = name

LoadNameMatches(name, e) ==
    \/ ToLower(Stem(e)) = ToLower(name)
    \/ /\ Classify(Stem(e)).isDefault
       /\ ToLower(Classify(Stem(e)).display) = ToLower(name)

\* the template files of a subdirectory in search order
TemplateFiles(d) ==
    IF d.state = "dir" THEN SelectSeq(ReadDir(d.entries), IsTemplateEntry) ELSE <<>>

NotLoaded == [status |-> "none", kind |-> "", file |-> <<>>]
NotFound == [status |-> "not found", kind |-> "", file |-> <<>>]
Loaded(k, e) == [status |-> "loaded", kind |-> k, file |-> e.name]

\* the file of an absolute path could not be read
ReadFailed == [status |-> "read failed", kind |-> "", file |-> <<>>]

\* filepath.IsAbs(name)
IsAbs(name) == name # <<>> /\ name[1] = "/"

\* the files of the two subdirectories that a path names
FilesAt(path, f) ==
    {c \in UNION {{<<k, e>> : e \in f[k].entries} : k \in Kinds} :
        ~c[2].isDir /\ TemplatePath(c[1], c[2].name) = path}

\* loading the file of an absolute path
LoadFile(path, f) ==
    IF FilesAt(path, f) # {}
    THEN LET c == CHOOSE x \in FilesAt(path, f) : TRUE IN Loaded(c[1], c[2])
    ELSE ReadFailed

LoadTemplate(name, f) ==
    IF IsAbs(name) THEN LoadFile(name, f)
    ELSE
    LET pre == SelectSeq(TemplateFiles(f["pre"]), LAMBDA e : LoadNameMatches(name, e))
        post == SelectSeq(TemplateFiles(f["post"]), LAMBDA e : LoadNameMatches(name, e))
    IN IF pre # <<>> THEN Loaded("pre", pre[1])
       ELSE IF post # <<>> THEN Loaded("post", post[1])
       ELSE NotFound

(***************************************************************************)
(* internal/config: the configuration manager.  Its implementation is      *)
(* outside the files modelled here; Resolve, MergeConfig and Validate      *)
(* follow their specification and the values the manager's tests use; a    *)
(* configuration has the fields those tests build and read.                *)
(***************************************************************************)
W_vim == <<"v","i","m">>
W_nano == <<"n","a","n","o">>
W_emacs == <<"e","m","a","c","s">>
W_clipboard == <<"c","l","i","p","b","o","a","r","d">>
W_stdout == <<"s","t","d","o","u","t">>
W_invalid == <<"i","n","v","a","l","i","d">>
W_git == <<"g","i","t">>
W_filesystem == <<"f","i","l","e","s","y","s","t","e","m">>
W_file == <<"f","i","l","e">>
FilePrefix == W_file \o <<":">>
TmpOutput == <<"/">> \o <<"t","m","p">> \o <<"/">> \o <<"o","u","t","p","u","t">> \o Dot \o W_txt

\* the configuration keys of the model
Fields == {"editor", "max_file_size_bytes", "target"}
IntFields == {"max_file_size_bytes"}

\* the environment variable of a key: the prefix and the key in upper case
EnvKey(f) ==
    CASE f = "editor" -> "PROMPTER_EDITOR"
      [] f = "max_file_size_bytes" -> "PROMPTER_MAX_FILE_SIZE_BYTES"
      [] f = "target" -> "PROMPTER_TARGET"
EnvKeys == {EnvKey(f) : f \in Fields}

DefaultMaxFileSizeBytes == 65536
DefaultMaxTotalBytes == 262144

\* the built-in defaults
Defaults == [editor |-> <<>>,
             max_file_size_bytes |-> DefaultMaxFileSizeBytes,
             target |-> W_clipboard]

\* a layer gives each key no value, <<>>, or one value, <<v>>
Unset == <<>>
Set(v) == <<v>>

\* what a configuration file may give each key
FileValues(f) ==
    CASE f = "editor" -> {W_nano}
      [] f = "max_file_size_bytes" -> {16384}
      [] f = "target" -> {W_stdout}
\* what the environment may give each key: always text
EnvValues(f) ==
    CASE f = "editor" -> {W_emacs}
      [] f = "max_file_size_bytes" -> {<<"8","1","9","2">>}
      [] f = "target" -> {FilePrefix \o TmpOutput}
\* what SetFlag may be called with for each key
FlagValues(f) ==
    CASE f = "editor" -> {W_vim, W_nano}
      [] f = "max_file_size_bytes" -> {32768, 0}
      [] f = "target" -> {W_clipboard, W_stdout}

Opt(S) == {Unset} \cup {Set(v) : v \in S}

FileLayers ==
    {[editor |-> e, max_file_size_bytes |-> m, target |-> t] :
        e \in Opt(FileValues("editor")),
        m \in Opt(FileValues("max_file_size_bytes")),
        t \in Opt(FileValues("target"))}
EnvLayers ==
    {[PROMPTER_EDITOR |-> e, PROMPTER_MAX_FILE_SIZE_BYTES |-> m, PROMPTER_TARGET |-> t] :
        e \in Opt(EnvValues("editor")),
        m \in Opt(EnvValues("max_file_size_bytes")),
        t \in Opt(EnvValues("target"))}
NoFlags == [f \in Fields |-> Unset]

\* the configurations MergeConfig is called with: each gives every key
MergedConfigs ==
    {[editor |-> Set(W_vim), max_file_size_bytes |-> Set(32768), target |-> Set(W_stdout)],
     [editor |-> Set(W_emacs), max_file_size_bytes |-> Set(0), target |-> Set(W_clipboard)]}

DigitValue(c) == (CHOOSE i \in 1..Len(Digits) : Digits[i] = c) - 1

\* the number a text of decimal digits stands for
RECURSIVE ParseInt(_)
ParseInt(s) ==
    IF s = <<>> THEN 0 ELSE 10 * ParseInt(SubSeq(s, 1, Len(s) - 1)) + DigitValue(s[Len(s)])

\* the value of key f an environment variable's text gives
FromEnv(f, text) == IF f \in IntFields THEN ParseInt(text) ELSE text

\* Resolve with the environment put above the flags
Resolve_EnvOverFlags(flags, env, file) ==
    [f \in Fields |->
        IF env[EnvKey(f)] # Unset THEN FromEnv(f, env[EnvKey(f)][1])
        ELSE IF flags[f] # Unset THEN flags[f][1]
        ELSE IF file[f] # Unset THEN file[f][1]
        ELSE Defaults[f]]

\* Resolve taking the flags as a whole configuration once one of them is set
Resolve_FlagsReplaceAll(flags, env, file) ==
    [f \in Fields |->
        IF flags[f] # Unset THEN flags[f][1]
        ELSE IF flags # NoFlags THEN Defaults[f]
        ELSE IF env[EnvKey(f)] # Unset THEN FromEnv(f, env[EnvKey(f)][1])
        ELSE IF file[f] # Unset THEN file[f][1]
        ELSE Defaults[f]]

\* Resolve: flags over environment over file over defaults, key by key
Resolve(flags, env, file) ==
    [f \in Fields |->
        IF flags[f] # Unset THEN flags[f][1]
        ELSE IF env[EnvKey(f)] # Unset THEN FromEnv(f, env[EnvKey(f)][1])
        ELSE IF file[f] # Unset THEN file[f][1]
        ELSE Defaults[f]]

\* a *Config as the manager's tests build and read it: nil, or a
\* configuration of which Validate reads the two size limits,
\* DirectoryStrategy and Target
Config(isNil, size, total, strategy, target) ==
    [isNil |-> isNil, max_file_size_bytes |-> size, max_total_bytes |-> total,
     directory_strategy |-> strategy, target |-> target]

NilConfig == Config(TRUE, 0, 0, <<>>, <<>>)

\* the configurations Validate is tried on
Configs ==
    {Config(FALSE, size, total, strategy, target) :
        size \in {-1, 0, DefaultMaxFileSizeBytes},
        total \in {-1, 0, DefaultMaxTotalBytes},
        strategy \in {W_git, W_filesystem, W_invalid},
        target \in {W_clipboard, W_stdout, W_invalid, W_file,
                    FilePrefix, FilePrefix \o TmpOutput, FilePrefix \o W_invalid}}
    \cup {NilConfig}

ValidStrategies == {W_git, W_filesystem}
ValidTargets == {W_clipboard, W_stdout}

\* Validate without the exemption of targets that start with "file:"
Validate_NoFilePrefix(c) ==
    IF c.isNil THEN "config is nil"
    ELSE IF c.max_file_size_bytes < 0 THEN "max_file_size_bytes is negative"
    ELSE IF c.max_total_bytes < 0 THEN "max_total_bytes is negative"
    ELSE IF c.directory_strategy \notin ValidStrategies THEN "invalid directory_strategy"
    ELSE IF c.target \notin ValidTargets THEN "invalid target"
    ELSE "nil"

\* Validate: the error returned, "nil" for none
Validate(c) ==
    IF c.isNil THEN "config is nil"
    ELSE IF c.max_file_size_bytes < 0 THEN "max_file_size_bytes is negative"
    ELSE IF c.max_total_bytes < 0 THEN "max_total_bytes is negative"
    ELSE IF c.directory_strategy \notin ValidStrategies THEN "invalid directory_strategy"
    ELSE IF c.target \notin ValidTargets /\ ~HasPrefix(c.target, FilePrefix) THEN "invalid target"
    ELSE "nil"

(***************************************************************************)
(* internal/config: expandPath.  Its implementation is outside the files   *)
(* modelled here; it follows its specification: a path whose first segment *)
(* is "~" has that segment replaced by the home directory, every other     *)
(* path is returned as it was given.                                       *)
(***************************************************************************)
\* the largest number of segments of a path handed to expandPath
MaxSegments == 3

Slash == <<"/">>
Tilde == <<"~">>
DotDot == <<".", ".">>
PathSegments == {Tilde, W_a, DotDot, Tilde \o W_a}

\* the segments joined by "/", as they were written: nothing is cleaned
RECURSIVE JoinSegments(_)
JoinSegments(segs) ==
    IF Len(segs) = 1 THEN segs[1]
    ELSE segs[1] \o Slash \o JoinSegments(Tail(segs))

SegmentLists == UNION {[1..n -> PathSegments] : n \in 1..MaxSegments}

\* "~", "~/a", "~/..", "~a/a", "a/~/..", ... and the same below the root:
\* "/~", "/~/a", "/a/..", ...
RelativePaths == {JoinSegments(segs) : segs \in SegmentLists}
AbsolutePaths == {Slash \o p : p \in RelativePaths}

Paths == RelativePaths \cup AbsolutePaths

HomeDirs == {<<"/","h","o","m","e","/","u">>, <<"/","r","o","o","t">>}

\* the path with every "~" segment replaced by the home directory
expandPath_EveryTilde(path, home) == ReplaceAll(path, Tilde, home)

\* the path is "~" or starts with "~/": its first segment is "~"
expandPath(path, home) ==
    IF path = Tilde \/ HasPrefix(path, Tilde \o Slash)
    THEN home \o SubSeq(path, 2, Len(path))
    ELSE path

(***************************************************************************)
(* internal/orchestrator/errors.go: the texts.                             *)
(***************************************************************************)

\* the error categories: errors.New(...) values, told apart by their texts
ErrConfigurationInvalid ==
    <<"c","o","n","f","i","g","u","r","a","t","i","o","n"," ","e","r","r",
      "o","r">>
ErrTemplateNotFound ==
    <<"t","e","m","p","l","a","t","e"," ","n","o","t"," ","f","o","u","n",
      "d">>
ErrTemplateInvalid ==
    <<"t","e","m","p","l","a","t","e"," ","e","r","r","o","r">>
ErrContentCollection ==
    <<"c","o","n","t","e","n","t"," ","c","o","l","l","e","c","t","i","o",
      "n"," ","e","r","r","o","r">>
ErrFixModeInvalid ==
    <<"f","i","x"," ","m","o","d","e"," ","e","r","r","o","r">>
ErrOutputFailed ==
    <<"o","u","t","p","u","t"," ","e","r","r","o","r">>
ErrValidationFailed ==
    <<"v","a","l","i","d","a","t","i","o","n"," ","e","r","r","o","r">>
ErrUnknown ==
    <<"u","n","k","n","o","w","n"," ","e","r","r","o","r">>

\* the substrings the constructors and the recovery strategies look for
S_permission ==
    <<"p","e","r","m","i","s","s","i","o","n">>
S_not_found ==
    <<"n","o","t"," ","f","o","u","n","d">>
S_does_not_exist ==
    <<"d","o","e","s"," ","n","o","t"," ","e","x","i","s","t">>
S_parse ==
    <<"p","a","r","s","e">>
S_syntax ==
    <<"s","y","n","t","a","x">>
S_empty ==
    <<"e","m","p","t","y">>
S_editor ==
    <<"e","d","i","t","o","r">>

\* the guidance texts
G_Configuration ==
    <<"R","u","n"," ","'","p","r","o","m","p","t","e","r"," ","-","-","h",
      "e","l","p","'"," ","f","o","r"," ","u","s","a","g","e"," ","i","n",
      "f","o","r","m","a","t","i","o","n"," ","a","n","d"," ","c","o","n",
      "f","i","g","u","r","a","t","i","o","n"," ","o","p","t","i","o","n",
      "s",".">>
G_ConfigurationPermission ==
    <<"C","h","e","c","k"," ","f","i","l","e"," ","p","e","r","m","i","s",
      "s","i","o","n","s"," ","f","o","r"," ","y","o","u","r"," ","c","o",
      "n","f","i","g","u","r","a","t","i","o","n"," ","d","i","r","e","c",
      "t","o","r","y","."," ","R","u","n"," ","'","p","r","o","m","p","t",
      "e","r"," ","-","-","h","e","l","p","'"," ","f","o","r"," ","m","o",
      "r","e"," ","i","n","f","o","r","m","a","t","i","o","n",".">>
G_ConfigurationNotFound ==
    <<"C","o","n","f","i","g","u","r","a","t","i","o","n"," ","f","i","l",
      "e"," ","n","o","t"," ","f","o","u","n","d","."," ","R","u","n"," ",
      "'","p","r","o","m","p","t","e","r"," ","-","-","h","e","l","p","'",
      " ","t","o"," ","s","e","e"," ","d","e","f","a","u","l","t"," ","l",
      "o","c","a","t","i","o","n","s"," ","a","n","d"," ","o","p","t","i",
      "o","n","s",".">>
G_Template ==
    <<"R","u","n"," ","'","p","r","o","m","p","t","e","r"," ","-","-","h",
      "e","l","p","'"," ","f","o","r"," ","t","e","m","p","l","a","t","e",
      " ","u","s","a","g","e"," ","a","n","d"," ","c","o","n","f","i","g",
      "u","r","a","t","i","o","n",".">>
G_ContentCollection ==
    <<"R","u","n"," ","'","p","r","o","m","p","t","e","r"," ","-","-","h",
      "e","l","p","'"," ","f","o","r"," ","f","i","l","e"," ","a","n","d",
      " ","d","i","r","e","c","t","o","r","y"," ","u","s","a","g","e"," ",
      "o","p","t","i","o","n","s",".">>
G_FixMode ==
    <<"R","u","n"," ","'","p","r","o","m","p","t","e","r"," ","-","-","h",
      "e","l","p","'"," ","f","o","r"," ","f","i","x"," ","m","o","d","e",
      " ","u","s","a","g","e"," ","a","n","d"," ","e","x","a","m","p","l",
      "e","s",".">>
G_FixModeNotFound ==
    <<"F","i","x"," ","f","i","l","e"," ","n","o","t"," ","f","o","u","n",
      "d","."," ","R","u","n"," ","'","p","r","o","m","p","t","e","r"," ",
      "-","-","h","e","l","p","'"," ","f","o","r"," ","f","i","x"," ","m",
      "o","d","e"," ","s","e","t","u","p",".">>
G_FixModeEmpty ==
    <<"F","i","x"," ","f","i","l","e"," ","i","s"," ","e","m","p","t","y",
      "."," ","R","u","n"," ","'","p","r","o","m","p","t","e","r"," ","-",
      "-","h","e","l","p","'"," ","f","o","r"," ","f","i","x"," ","m","o",
      "d","e"," ","u","s","a","g","e",".">>
G_Output ==
    <<"R","u","n"," ","'","p","r","o","m","p","t","e","r"," ","-","-","h",
      "e","l","p","'"," ","f","o","r"," ","o","u","t","p","u","t"," ","t",
      "a","r","g","e","t"," ","o","p","t","i","o","n","s",".">>
G_OutputClipboard ==
    <<"C","l","i","p","b","o","a","r","d"," ","a","c","c","e","s","s"," ",
      "f","a","i","l","e","d","."," ","T","r","y"," ","-","-","t","a","r",
      "g","e","t"," ","s","t","d","o","u","t"," ","o","r"," ","r","u","n",
      " ","'","p","r","o","m","p","t","e","r"," ","-","-","h","e","l","p",
      "'"," ","f","o","r"," ","o","p","t","i","o","n","s",".">>
G_OutputFile ==
    <<"F","i","l","e"," ","w","r","i","t","e"," ","f","a","i","l","e","d",
      "."," ","R","u","n"," ","'","p","r","o","m","p","t","e","r"," ","-",
      "-","h","e","l","p","'"," ","f","o","r"," ","o","u","t","p","u","t",
      " ","o","p","t","i","o","n","s",".">>
G_OutputEditor ==
    <<"E","d","i","t","o","r"," ","l","a","u","n","c","h"," ","f","a","i",
      "l","e","d","."," ","R","u","n"," ","'","p","r","o","m","p","t","e",
      "r"," ","-","-","h","e","l","p","'"," ","f","o","r"," ","e","d","i",
      "t","o","r"," ","c","o","n","f","i","g","u","r","a","t","i","o","n",
      ".">>
G_Usage ==
    <<"R","u","n"," ","'","p","r","o","m","p","t","e","r"," ","-","-","h",
      "e","l","p","'"," ","f","o","r"," ","u","s","a","g","e"," ","i","n",
      "f","o","r","m","a","t","i","o","n",".">>
G_ValidationBasePrompt ==
    <<"B","a","s","e"," ","p","r","o","m","p","t"," ","r","e","q","u","i",
      "r","e","d"," ","i","n"," ","n","o","n","-","i","n","t","e","r","a",
      "c","t","i","v","e"," ","m","o","d","e","."," ","R","u","n"," ","'",
      "p","r","o","m","p","t","e","r"," ","-","-","h","e","l","p","'"," ",
      "f","o","r"," ","o","p","t","i","o","n","s",".">>
G_ValidationTarget ==
    <<"I","n","v","a","l","i","d"," ","t","a","r","g","e","t","."," ","R",
      "u","n"," ","'","p","r","o","m","p","t","e","r"," ","-","-","h","e",
      "l","p","'"," ","f","o","r"," ","v","a","l","i","d"," ","o","u","t",
      "p","u","t"," ","t","a","r","g","e","t","s",".">>
G_ValidationConfigPath ==
    <<"I","n","v","a","l","i","d"," ","c","o","n","f","i","g"," ","p","a",
      "t","h","."," ","R","u","n"," ","'","p","r","o","m","p","t","e","r",
      " ","-","-","h","e","l","p","'"," ","f","o","r"," ","c","o","n","f",
      "i","g","u","r","a","t","i","o","n"," ","o","p","t","i","o","n","s",
      ".">>
G_ValidationTemplateName ==
    <<"I","n","v","a","l","i","d"," ","t","e","m","p","l","a","t","e"," ",
      "n","a","m","e","."," ","R","u","n"," ","'","p","r","o","m","p","t",
      "e","r"," ","-","-","h","e","l","p","'"," ","f","o","r"," ","t","e",
      "m","p","l","a","t","e"," ","u","s","a","g","e",".">>
G_RecoverConfigHelp ==
    <<"R","u","n"," ","'","p","r","o","m","p","t","e","r"," ","-","-","h",
      "e","l","p","'"," ","f","o","r"," ","c","o","n","f","i","g","u","r",
      "a","t","i","o","n"," ","h","e","l","p",".">>
G_RecoverConfigCreated ==
    <<"C","o","n","f","i","g"," ","d","i","r","e","c","t","o","r","y"," ",
      "c","r","e","a","t","e","d","."," ","R","u","n"," ","'","p","r","o",
      "m","p","t","e","r"," ","-","-","h","e","l","p","'"," ","f","o","r",
      " ","c","o","n","f","i","g","u","r","a","t","i","o","n"," ","o","p",
      "t","i","o","n","s",".">>
G_RecoverTemplate ==
    <<"T","e","m","p","l","a","t","e"," ","n","o","t"," ","f","o","u","n",
      "d","."," ","R","u","n"," ","'","p","r","o","m","p","t","e","r"," ",
      "-","-","h","e","l","p","'"," ","f","o","r"," ","t","e","m","p","l",
      "a","t","e"," ","s","e","t","u","p"," ","o","r"," ","o","m","i","t",
      " ","t","e","m","p","l","a","t","e"," ","f","l","a","g","s",".">>
G_RecoverOutput ==
    <<"C","l","i","p","b","o","a","r","d"," ","f","a","i","l","e","d",".",
      " ","T","r","y"," ","-","-","t","a","r","g","e","t"," ","s","t","d",
      "o","u","t"," ","o","r"," ","r","u","n"," ","'","p","r","o","m","p",
      "t","e","r"," ","-","-","h","e","l","p","'"," ","f","o","r"," ","o",
      "p","t","i","o","n","s",".">>

\* the pieces of the formatted messages and guidance texts
F_Quote ==
    <<"'">>
F_ColonSpace ==
    <<":"," ">>
F_BlankLine ==
    <<"\n","\n">>
F_TemplateMessage ==
    <<"f","a","i","l","e","d"," ","t","o"," ","p","r","o","c","e","s","s",
      " ","t","e","m","p","l","a","t","e"," ","'">>
F_TemplateGuidance1 ==
    <<"T","e","m","p","l","a","t","e"," ","'">>
F_TemplateNotFound2 ==
    <<"'"," ","n","o","t"," ","f","o","u","n","d","."," ","R","u","n"," ",
      "'","p","r","o","m","p","t","e","r"," ","-","-","h","e","l","p","'",
      " ","f","o","r"," ","t","e","m","p","l","a","t","e"," ","s","e","t",
      "u","p",".">>
F_TemplateSyntax2 ==
    <<"'"," ","h","a","s"," ","s","y","n","t","a","x"," ","e","r","r","o",
      "r","s","."," ","R","u","n"," ","'","p","r","o","m","p","t","e","r",
      " ","-","-","h","e","l","p","'"," ","f","o","r"," ","t","e","m","p",
      "l","a","t","e"," ","f","o","r","m","a","t",".">>
F_ContentMessage ==
    <<"f","a","i","l","e","d"," ","t","o"," ","c","o","l","l","e","c","t",
      " ","c","o","n","t","e","n","t"," ","f","r","o","m"," ","'">>
F_ContentPermission1 ==
    <<"P","e","r","m","i","s","s","i","o","n"," ","d","e","n","i","e","d",
      " ","a","c","c","e","s","s","i","n","g"," ","'">>
F_ContentNotFound1 ==
    <<"P","a","t","h"," ","'">>
F_ContentPermission2 ==
    <<"'","."," ","R","u","n"," ","'","p","r","o","m","p","t","e","r"," ",
      "-","-","h","e","l","p","'"," ","f","o","r"," ","u","s","a","g","e",
      ".">>
F_ContentNotFound2 ==
    <<"'"," ","n","o","t"," ","f","o","u","n","d","."," ","R","u","n"," ",
      "'","p","r","o","m","p","t","e","r"," ","-","-","h","e","l","p","'",
      " ","f","o","r"," ","u","s","a","g","e",".">>
F_FixModeMessage ==
    <<"f","i","x"," ","m","o","d","e"," ","f","a","i","l","e","d"," ","w",
      "i","t","h"," ","f","i","l","e"," ","'">>
F_OutputMessage ==
    <<"f","a","i","l","e","d"," ","t","o"," ","o","u","t","p","u","t"," ",
      "t","o"," ","t","a","r","g","e","t"," ","'">>
F_ValidationMessage1 ==
    <<"v","a","l","i","d","a","t","i","o","n"," ","f","a","i","l","e","d",
      " ","f","o","r"," ">>
F_ValidationMessage2 ==
    <<" ","(">>
F_ValidationMessage3 ==
    <<")">>

\* texts of the errors of lower layers, and arguments of the constructors
E_permission_denied ==
    <<"p","e","r","m","i","s","s","i","o","n"," ","d","e","n","i","e","d">>
E_exit_1 ==
    <<"e","x","i","t"," ","1">>
E_not_found_permission ==
    <<"n","o","t"," ","f","o","u","n","d",":"," ","p","e","r","m","i","s",
      "s","i","o","n">>
E_syntax_not_found ==
    <<"s","y","n","t","a","x",":"," ","n","o","t"," ","f","o","u","n","d">>
E_empty_not_found ==
    <<"e","m","p","t","y",":"," ","n","o","t"," ","f","o","u","n","d">>
E_no_editor ==
    <<"n","o"," ","e","d","i","t","o","r">>
A_base_prompt ==
    <<"b","a","s","e","_","p","r","o","m","p","t">>
A_target ==
    <<"t","a","r","g","e","t">>
A_config_path ==
    <<"c","o","n","f","i","g","_","p","a","t","h">>
A_template_name ==
    <<"t","e","m","p","l","a","t","e","_","n","a","m","e">>
A_max_total_bytes ==
    <<"m","a","x","_","t","o","t","a","l","_","b","y","t","e","s">>
A_required ==
    <<"r","e","q","u","i","r","e","d">>
A_fix_file ==
    <<"f","i","x",".","t","x","t">>
A_src ==
    <<"s","r","c">>
A_file_out ==
    <<"f","i","l","e",":","o","u","t">>
A_file_clipboard ==
    <<"f","i","l","e",":","c","l","i","p","b","o","a","r","d">>
A_template_a_not_found ==
    <<"t","e","m","p","l","a","t","e"," ","'","a","'"," ","n","o","t"," ",
      "f","o","u","n","d">>
A_output_failed ==
    <<"o","u","t","p","u","t"," ","f","a","i","l","e","d",":"," ">>


(***************************************************************************)
(* Error values.  A Go error is nil or a chain of layers, outermost first: *)
(* errors.New(text) is one "plain" layer, fmt.Errorf(prefix + "%w", e) is  *)
(* a "wrap" layer over the layers of e, and a *PrompterError is a          *)
(* "structured" layer over the layers of its Cause; the *fs.PathError of a *)
(* failed file operation is a "patherror" layer over its Err.              *)
(***************************************************************************)
Nil == <<>>

Layer(kind, type, message, guidance) ==
    [kind |-> kind, type |-> type, message |-> message, guidance |-> guidance]

\* errors.New(text)
New(text) == <<Layer("plain", <<>>, text, <<>>)>>

\* fmt.Errorf(prefix + "%w", e), e not nil
Errorf(prefix, e) == <<Layer("wrap", <<>>, prefix, <<>>)>> \o e

\* &PrompterError{Type, Message, Guidance, Cause}
PrompterError(type, message, guidance, cause) ==
    <<Layer("structured", type, message, guidance)>> \o cause

\* &fs.PathError{Op, Path, Err}, the error of a failed file operation: its
\* text is Op + " " + Path + ": " + Err.Error()
PathError(operation, path, e) ==
    <<Layer("patherror", <<>>, operation \o <<" ">> \o path \o F_ColonSpace, <<>>)>> \o e

\* err.Error()
RECURSIVE ErrorText(_)
ErrorText(e) ==
    CASE e[1].kind = "plain" -> e[1].message
      [] e[1].kind \in {"wrap", "patherror"} -> e[1].message \o ErrorText(Tail(e))
      [] OTHER ->
            IF e[1].guidance # <<>>
            THEN e[1].type \o F_ColonSpace \o e[1].message \o F_BlankLine \o e[1].guidance
            ELSE e[1].type \o F_ColonSpace \o e[1].message

\* errors.As(err, &prompterErr): the position of the first *PrompterError
\* met when unwrapping, 0 when there is none
As(e) ==
    IF \E i \in 1..Len(e) : e[i].kind = "structured"
    THEN CHOOSE i \in 1..Len(e) :
            /\ e[i].kind = "structured"
            /\ \A j \in 1..(i - 1) : e[j].kind # "structured"
    ELSE 0

\* the *PrompterError errors.As stores: the chain from that layer on
AsTarget(e) == SubSeq(e, As(e), Len(e))

(***************************************************************************)
(* The error constructors.  Each returns the error it built, or panics:    *)
(* cause.Error() on a nil cause is a nil dereference.                      *)
(***************************************************************************)
Built(e) == [panic |-> FALSE, err |-> e]
Panic == [panic |-> TRUE, err |-> Nil]

NewConfigurationError(message, cause) ==
    LET guidance ==
            IF Contains(message, S_permission) THEN G_ConfigurationPermission
            ELSE IF Contains(message, S_not_found) \/ Contains(message, S_does_not_exist)
            THEN G_ConfigurationNotFound
            ELSE G_Configuration
    IN Built(PrompterError(ErrConfigurationInvalid, message, guidance, cause))

\* the rules of NewTemplateError in the other order
NewTemplateError_SyntaxFirst(templateName, cause) ==
    IF cause = Nil THEN Panic
    ELSE
    LET message == F_TemplateMessage \o templateName \o F_Quote
        guidance ==
            IF Contains(ErrorText(cause), S_parse) \/ Contains(ErrorText(cause), S_syntax)
            THEN F_TemplateGuidance1 \o templateName \o F_TemplateSyntax2
            ELSE IF Contains(ErrorText(cause), S_not_found)
            THEN F_TemplateGuidance1 \o templateName \o F_TemplateNotFound2
            ELSE G_Template
    IN Built(PrompterError(ErrTemplateInvalid, message, guidance, cause))

NewTemplateError(templateName, cause) ==
    IF cause = Nil THEN Panic
    ELSE
    LET message == F_TemplateMessage \o templateName \o F_Quote
        guidance ==
            IF Contains(ErrorText(cause), S_not_found)
            THEN F_TemplateGuidance1 \o templateName \o F_TemplateNotFound2
            ELSE IF Contains(ErrorText(cause), S_parse) \/ Contains(ErrorText(cause), S_syntax)
            THEN F_TemplateGuidance1 \o templateName \o F_TemplateSyntax2
            ELSE G_Template
    IN Built(PrompterError(ErrTemplateInvalid, message, guidance, cause))

NewContentCollectionError(path, cause) ==
    IF cause = Nil THEN Panic
    ELSE
    LET message == F_ContentMessage \o path \o F_Quote
        guidance ==
            IF Contains(ErrorText(cause), S_permission)
            THEN F_ContentPermission1 \o path \o F_ContentPermission2
            ELSE IF Contains(ErrorText(cause), S_not_found)
                    \/ Contains(ErrorText(cause), S_does_not_exist)
            THEN F_ContentNotFound1 \o path \o F_ContentNotFound2
            ELSE G_ContentCollection
    IN Built(PrompterError(ErrContentCollection, message, guidance, cause))

NewFixModeError(fixFile, cause) ==
    IF cause = Nil THEN Panic
    ELSE
    LET message == F_FixModeMessage \o fixFile \o F_Quote
        guidance ==
            IF Contains(ErrorText(cause), S_not_found)
                \/ Contains(ErrorText(cause), S_does_not_exist)
            THEN G_FixModeNotFound
            ELSE IF Contains(ErrorText(cause), S_empty) THEN G_FixModeEmpty
            ELSE G_FixMode
    IN Built(PrompterError(ErrFixModeInvalid, message, guidance, cause))

\* the cause is read only for a target that is neither the clipboard nor a file
NewOutputError(target, cause) ==
    LET message == F_OutputMessage \o target \o F_Quote IN
    IF target = W_clipboard
    THEN Built(PrompterError(ErrOutputFailed, message, G_OutputClipboard, cause))
    ELSE IF HasPrefix(target, FilePrefix)
    THEN Built(PrompterError(ErrOutputFailed, message, G_OutputFile, cause))
    ELSE IF cause = Nil THEN Panic
    ELSE IF Contains(ErrorText(cause), S_editor)
    THEN Built(PrompterError(ErrOutputFailed, message, G_OutputEditor, cause))
    ELSE Built(PrompterError(ErrOutputFailed, message, G_Output, cause))

\* value is a string here, and %v prints it as it is
NewValidationError(field, value, reason) ==
    LET message == F_ValidationMessage1 \o field \o F_ColonSpace \o value
                   \o F_ValidationMessage2 \o reason \o F_ValidationMessage3
        guidance ==
            CASE field = A_base_prompt -> G_ValidationBasePrompt
              [] field = A_target -> G_ValidationTarget
              [] field = A_config_path -> G_ValidationConfigPath
              [] field = A_template_name -> G_ValidationTemplateName
              [] OTHER -> G_Usage
    IN Built(PrompterError(ErrValidationFailed, message, guidance, Nil))

(***************************************************************************)
(* Recovery.  The configuration directory is ~/.config/prompter: home is   *)
(* "ok" or "unavailable" (os.UserHomeDir fails), dir is "missing",         *)
(* "exists" or "unknown" (os.Stat fails otherwise than with not-exist),    *)
(* and mkdirOk tells whether os.MkdirAll succeeds if it is called.  A      *)
(* strategy writes the Guidance field of the *PrompterError it was handed, *)
(* so the caller's error changes with it: err is the caller's chain after  *)
(* the call, out the error returned.                                       *)
(***************************************************************************)
Recovered(out, e, dir, mkdirs) == [out |-> out, err |-> e, dir |-> dir, mkdirs |-> mkdirs]

\* err.Guidance = g, for the *PrompterError at position i of the chain
SetGuidance(e, i, g) == [e EXCEPT ![i].guidance = g]

recoverFromConfigError(e, i, home, dir, mkdirOk) ==
    IF home # "ok" THEN Recovered(SubSeq(e, i, Len(e)), e, dir, 0)
    ELSE IF dir = "missing"
    THEN IF ~mkdirOk
         THEN LET e2 == SetGuidance(e, i, G_RecoverConfigHelp)
              IN Recovered(SubSeq(e2, i, Len(e2)), e2, dir, 1)
         ELSE LET e2 == SetGuidance(e, i, G_RecoverConfigCreated)
              IN Recovered(SubSeq(e2, i, Len(e2)), e2, "exists", 1)
    ELSE Recovered(SubSeq(e, i, Len(e)), e, dir, 0)

recoverFromTemplateError(e, i, dir) ==
    LET e2 == IF Contains(e[i].message, S_not_found)
              THEN SetGuidance(e, i, G_RecoverTemplate) ELSE e
    IN Recovered(SubSeq(e2, i, Len(e2)), e2, dir, 0)

recoverFromOutputError(e, i, dir) ==
    LET e2 == IF Contains(e[i].message, W_clipboard)
              THEN SetGuidance(e, i, G_RecoverOutput) ELSE e
    IN Recovered(SubSeq(e2, i, Len(e2)), e2, dir, 0)

\* a nil result whenever the configuration directory had to be created
RecoverFromError_SwallowCreated(e, home, dir, mkdirOk) ==
    IF e # Nil /\ As(e) # 0 /\ e[As(e)].type = ErrConfigurationInvalid
       /\ home = "ok" /\ dir = "missing" /\ mkdirOk
    THEN Recovered(Nil, e, "exists", 1)
    ELSE IF e = Nil THEN Recovered(Nil, e, dir, 0)
    ELSE IF As(e) = 0
    THEN Recovered(PrompterError(ErrUnknown, ErrorText(e), G_Usage, e), e, dir, 0)
    ELSE Recovered(AsTarget(e), e, dir, 0)

\* an unknown error returned as it came
RecoverFromError_UnknownAsIs(e, home, dir, mkdirOk) ==
    IF e = Nil THEN Recovered(Nil, e, dir, 0)
    ELSE IF As(e) = 0 THEN Recovered(e, e, dir, 0)
    ELSE Recovered(AsTarget(e), e, dir, 0)

\* the error returned without its cause
RecoverFromError_DropCause(e, home, dir, mkdirOk) ==
    IF e = Nil THEN Recovered(Nil, e, dir, 0)
    ELSE IF As(e) = 0
    THEN Recovered(PrompterError(ErrUnknown, ErrorText(e), G_Usage, e), e, dir, 0)
    ELSE LET r == CASE e[As(e)].type = ErrConfigurationInvalid ->
                         recoverFromConfigError(e, As(e), home, dir, mkdirOk)
                    [] e[As(e)].type = ErrTemplateNotFound ->
                         recoverFromTemplateError(e, As(e), dir)
                    [] e[As(e)].type = ErrOutputFailed ->
                         recoverFromOutputError(e, As(e), dir)
                    [] OTHER -> Recovered(AsTarget(e), e, dir, 0)
         IN Recovered(<<r.out[1]>>, r.err, r.dir, r.mkdirs)

\* an output recovery that adds its advice to the guidance it finds
RecoverFromError_AppendGuidance(e, home, dir, mkdirOk) ==
    IF e = Nil THEN Recovered(Nil, e, dir, 0)
    ELSE IF As(e) = 0
    THEN Recovered(PrompterError(ErrUnknown, ErrorText(e), G_Usage, e), e, dir, 0)
    ELSE CASE e[As(e)].type = ErrConfigurationInvalid ->
                recoverFromConfigError(e, As(e), home, dir, mkdirOk)
           [] e[As(e)].type = ErrTemplateNotFound ->
                recoverFromTemplateError(e, As(e), dir)
           [] e[As(e)].type = ErrOutputFailed /\ Contains(e[As(e)].message, W_clipboard) ->
                LET e2 == SetGuidance(e, As(e), e[As(e)].guidance \o G_RecoverOutput)
                IN Recovered(AsTarget(e2), e2, dir, 0)
           [] OTHER -> Recovered(AsTarget(e), e, dir, 0)

RecoverFromError(e, home, dir, mkdirOk) ==
    IF e = Nil THEN Recovered(Nil, e, dir, 0)
    ELSE IF As(e) = 0
    THEN Recovered(PrompterError(ErrUnknown, ErrorText(e), G_Usage, e), e, dir, 0)
    ELSE CASE e[As(e)].type = ErrConfigurationInvalid ->
                recoverFromConfigError(e, As(e), home, dir, mkdirOk)
           [] e[As(e)].type = ErrTemplateNotFound ->
                recoverFromTemplateError(e, As(e), dir)
           [] e[As(e)].type = ErrOutputFailed ->
                recoverFromOutputError(e, As(e), dir)
           [] OTHER -> Recovered(AsTarget(e), e, dir, 0)

\* every output error taken for recoverable
IsRecoverableError_AnyOutput(e) ==
    IF e = Nil \/ As(e) = 0 THEN FALSE
    ELSE e[As(e)].type \in {ErrTemplateNotFound, ErrOutputFailed}

IsRecoverableError(e) ==
    IF e = Nil \/ As(e) = 0 THEN FALSE
    ELSE CASE e[As(e)].type = ErrTemplateNotFound -> TRUE
           [] e[As(e)].type = ErrOutputFailed -> Contains(e[As(e)].message, W_clipboard)
           [] OTHER -> FALSE

(***************************************************************************)
(* The errors the model builds.                                            *)
(***************************************************************************)
\* the largest number of fmt.Errorf layers put around an error
MaxWraps == 1

ErrorTypes ==
    {ErrConfigurationInvalid, ErrTemplateNotFound, ErrTemplateInvalid,
     ErrContentCollection, ErrFixModeInvalid, ErrOutputFailed, ErrValidationFailed}

\* what the errors of the lower layers say
CauseTexts ==
    {E_permission_denied, S_not_found, S_does_not_exist, S_syntax, S_empty,
     E_no_editor, E_exit_1, E_not_found_permission, E_syntax_not_found,
     E_empty_not_found}

ConfigMessages ==
    {E_permission_denied, S_not_found, S_does_not_exist, W_invalid, E_not_found_permission}

OutputTargets == {W_clipboard, W_stdout, W_vim, A_file_out, A_file_clipboard}

ValidationFields ==
    {A_base_prompt, A_target, A_config_path, A_template_name, A_max_total_bytes}

LiteralMessages == {A_template_a_not_found, W_clipboard, W_invalid}

Wraps(e) == Cardinality({i \in 1..Len(e) : e[i].kind = "wrap"})
Structures(e) == Cardinality({i \in 1..Len(e) : e[i].kind = "structured"})

\* a structured error that has no cause, with the fmt.Errorf layers around it
Causeless(e) == Structures(e) = 1 /\ e[Len(e)].kind = "structured"

\* the causes given to a constructor: for the first error built, nil or an
\* error of a lower layer; after that, the error at hand when it is causeless
Causes(e) ==
    IF e = Nil THEN {Nil} \cup {New(t) : t \in CauseTexts}
    ELSE IF Causeless(e) THEN {e}
    ELSE {}

(***************************************************************************)
(* internal/interactive/prompter.go: CollectMissingInputs.                 *)
(***************************************************************************)
\* the texts of prompter.go and of the errors it is returned
P_failed_base ==
    <<"f","a","i","l","e","d"," ","t","o"," ","c","o","l","l","e","c","t",
      " ","b","a","s","e"," ","p","r","o","m","p","t",":"," ">>
P_failed_pre ==
    <<"f","a","i","l","e","d"," ","t","o"," ","c","o","l","l","e","c","t",
      " ","p","r","e","-","t","e","m","p","l","a","t","e",":"," ">>
P_failed_post ==
    <<"f","a","i","l","e","d"," ","t","o"," ","c","o","l","l","e","c","t",
      " ","p","o","s","t","-","t","e","m","p","l","a","t","e",":"," ">>
P_failed_directory ==
    <<"f","a","i","l","e","d"," ","t","o"," ","c","o","l","l","e","c","t",
      " ","d","i","r","e","c","t","o","r","y"," ","i","n","c","l","u","s",
      "i","o","n",":"," ">>
P_find_pre ==
    <<"f","a","i","l","e","d"," ","t","o"," ","f","i","n","d"," ","p","r",
      "e"," ","t","e","m","p","l","a","t","e","s",":"," ">>
P_find_post ==
    <<"f","a","i","l","e","d"," ","t","o"," ","f","i","n","d"," ","p","o",
      "s","t"," ","t","e","m","p","l","a","t","e","s",":"," ">>
P_read_dir ==
    <<"f","a","i","l","e","d"," ","t","o"," ","r","e","a","d"," ","t","e",
      "m","p","l","a","t","e"," ","d","i","r","e","c","t","o","r","y"," ">>
P_getwd ==
    <<"f","a","i","l","e","d"," ","t","o"," ","g","e","t"," ","c","u","r",
      "r","e","n","t"," ","d","i","r","e","c","t","o","r","y",":"," ">>
E_interrupt ==
    <<"i","n","t","e","r","r","u","p","t">>
E_getwd ==
    <<"g","e","t","w","d",":"," ","n","o"," ","s","u","c","h"," ","f","i",
      "l","e"," ","o","r"," ","d","i","r","e","c","t","o","r","y">>
W_pre ==
    <<"p","r","e">>
W_post ==
    <<"p","o","s","t">>
W_prompts ==
    <<"p","r","o","m","p","t","s">>
W_open ==
    <<"o","p","e","n">>
W_work ==
    <<"w","o","r","k">>
W_fix_it ==
    <<"f","i","x"," ","i","t">>
W_fix_it_padded ==
    <<" "," ","f","i","x"," ","i","t","\n">>
W_blank ==
    <<" ","	">>


\* strings.TrimSpace, for the white space of the model
WhiteSpace == {" ", "\t", "\n"}

RECURSIVE TrimSpaceLeft(_)
TrimSpaceLeft(s) ==
    IF s # <<>> /\ Head(s) \in WhiteSpace THEN TrimSpaceLeft(Tail(s)) ELSE s

RECURSIVE TrimSpaceRight(_)
TrimSpaceRight(s) ==
    IF s # <<>> /\ s[Len(s)] \in WhiteSpace
    THEN TrimSpaceRight(SubSeq(s, 1, Len(s) - 1)) ELSE s

TrimSpace(s) == TrimSpaceRight(TrimSpaceLeft(s))

\* what the user does at a question: an answer, or ctrl-c, which survey
\* returns as the error "interrupt"
Answer(v) == [interrupted |-> FALSE, value |-> v]
Interrupted == [interrupted |-> TRUE, value |-> <<>>]

\* os.Getwd
Cwd == Slash \o W_work
GetwdFails == [failed |-> TRUE, dir |-> <<>>]
GetwdReturns(d) == [failed |-> FALSE, dir |-> d]

\* filepath.Join(p.promptsLocation, subdir)
PromptsLocation == Slash \o W_prompts
SubdirName(k) == IF k = "pre" THEN W_pre ELSE W_post
TemplateDir(k) == PromptsLocation \o Slash \o SubdirName(k)

\* the error findTemplates returns for a directory the process may not read:
\* the *fs.PathError of opening it, wrapped
ReadDirError(k) ==
    Errorf(P_read_dir \o TemplateDir(k) \o F_ColonSpace,
           PathError(W_open, TemplateDir(k), New(E_permission_denied)))

\* the outcome of a step of CollectMissingInputs: the request after it, the
\* error it returned, the questions it asked
Step(request, e, asked) == [request |-> request, err |-> e, asked |-> asked]

promptForBasePrompt(request, answer) ==
    IF answer.interrupted THEN Step(request, New(E_interrupt), <<"base prompt">>)
    ELSE Step([request EXCEPT !.BasePrompt = TrimSpace(answer.value)], Nil,
              <<"base prompt">>)

promptForPreTemplate(request, files, answer) ==
    IF findTemplates(files["pre"]).err
    THEN Step(request, Errorf(P_find_pre, ReadDirError("pre")), <<>>)
    ELSE IF answer.interrupted THEN Step(request, New(E_interrupt), <<"pre-template">>)
    ELSE IF answer.value # None
    THEN Step([request EXCEPT !.PreTemplate = answer.value], Nil, <<"pre-template">>)
    ELSE Step(request, Nil, <<"pre-template">>)

promptForPostTemplate(request, files, answer) ==
    IF findTemplates(files["post"]).err
    THEN Step(request, Errorf(P_find_post, ReadDirError("post")), <<>>)
    ELSE IF answer.interrupted THEN Step(request, New(E_interrupt), <<"post-template">>)
    ELSE IF answer.value # None
    THEN Step([request EXCEPT !.PostTemplate = answer.value], Nil, <<"post-template">>)
    ELSE Step(request, Nil, <<"post-template">>)

\* answer is "interrupt", "yes" or "no"
promptForDirectoryInclusion(request, answer, getwd) ==
    IF answer = "interrupt" THEN Step(request, New(E_interrupt), <<"directory">>)
    ELSE IF answer = "yes"
    THEN IF getwd.failed
         THEN Step(request, Errorf(P_getwd, New(E_getwd)), <<"directory">>)
         ELSE Step([request EXCEPT !.Directory = getwd.dir], Nil, <<"directory">>)
    ELSE Step(request, Nil, <<"directory">>)

\* CollectMissingInputs goes on after a step: the request the step left, the
\* step's error wrapped under prefix, and one more question asked if it asked
Then(sofar, step, prefix) ==
    Step(step.request,
         IF step.err = Nil THEN Nil ELSE Errorf(prefix, step.err),
         sofar.asked \o step.asked)

\* the four guarded steps of CollectMissingInputs; each is skipped once an
\* earlier one has failed, which is the early return of the code
collectBasePrompt(sofar, answers) ==
    IF sofar.err = Nil /\ sofar.request.BasePrompt = <<>> /\ ~sofar.request.FixMode
    THEN Then(sofar, promptForBasePrompt(sofar.request, answers.base), P_failed_base)
    ELSE sofar

\* the pre-template asked for although the request names one
collectPreTemplate_Always(sofar, files, answers) ==
    IF sofar.err = Nil /\ ~sofar.request.FixMode
    THEN Then(sofar, promptForPreTemplate(sofar.request, files, answers.pre), P_failed_pre)
    ELSE sofar

collectPreTemplate(sofar, files, answers) ==
    IF sofar.err = Nil /\ sofar.request.PreTemplate = <<>> /\ ~sofar.request.FixMode
    THEN Then(sofar, promptForPreTemplate(sofar.request, files, answers.pre), P_failed_pre)
    ELSE sofar

collectPostTemplate(sofar, files, answers) ==
    IF sofar.err = Nil /\ sofar.request.PostTemplate = <<>> /\ ~sofar.request.FixMode
    THEN Then(sofar, promptForPostTemplate(sofar.request, files, answers.post),
              P_failed_post)
    ELSE sofar

\* the directory question asked in fix mode too
collectDirectoryInclusion_InFixMode(sofar, answers) ==
    IF sofar.err = Nil /\ sofar.request.Directory = <<>> /\ sofar.request.Files = <<>>
    THEN Then(sofar,
              promptForDirectoryInclusion(sofar.request, answers.include, answers.getwd),
              P_failed_directory)
    ELSE sofar

collectDirectoryInclusion(sofar, answers) ==
    IF sofar.err = Nil /\ sofar.request.Directory = <<>> /\ sofar.request.Files = <<>>
       /\ ~sofar.request.FixMode
    THEN Then(sofar,
              promptForDirectoryInclusion(sofar.request, answers.include, answers.getwd),
              P_failed_directory)
    ELSE sofar

\* CollectMissingInputs for an interactive request; answers holds what the
\* user would do at each question and what os.Getwd returns.
\* showConfirmationSummary comes last; it returns nil, so its error branch
\* is never taken
CollectInteractive(request, files, answers) ==
    collectDirectoryInclusion(
        collectPostTemplate(
            collectPreTemplate(
                collectBasePrompt(Step(request, Nil, <<>>), answers),
                files, answers),
            files, answers),
        answers)

\* the questions asked whatever request.Interactive is
CollectMissingInputs_AlwaysAsks(request, files, answers) ==
    CollectInteractive(request, files, answers)

CollectMissingInputs(request, files, answers) ==
    IF ~request.Interactive THEN Step(request, Nil, <<>>)
    ELSE CollectInteractive(request, files, answers)

(***************************************************************************)
(* The requests, prompts locations and users of the model.                 *)
(***************************************************************************)
PromptRequest(interactive, fixMode, basePrompt, pre, post, directory, files) ==
    [Interactive |-> interactive, FixMode |-> fixMode, BasePrompt |-> basePrompt,
     PreTemplate |-> pre, PostTemplate |-> post, Directory |-> directory,
     Files |-> files, ConfigPath |-> <<>>, Target |-> W_clipboard, Editor |-> <<>>]

\* the output target and the editor override of the command line
Outputs ==
    {[Target |-> W_clipboard, Editor |-> <<>>], [Target |-> W_stdout, Editor |-> W_vim]}

Requests ==
    {[PromptRequest(i, f, b, pre, post, d, fl)
         EXCEPT !.Target = o.Target, !.Editor = o.Editor] :
        i \in BOOLEAN, f \in BOOLEAN, b \in {<<>>, W_fix_it},
        pre \in {<<>>, W_strict}, post \in {<<>>, W_a},
        d \in {<<>>, Cwd}, fl \in {<<>>, <<W_a \o MdSuffix>>}, o \in Outputs}

NoRequest == PromptRequest(FALSE, FALSE, <<>>, <<>>, <<>>, <<>>, <<>>)

\* a template subdirectory: missing, unreadable, or holding strict.default.md,
\* a.md and not.txt
CollectDirs ==
    {Missing, Unreadable,
     Readable({File(W_strict \o DefaultSuffix \o MdSuffix), File(W_a \o MdSuffix),
               File(W_not \o Dot \o W_txt)})}

Range(seq) == {seq[i] : i \in 1..Len(seq)}

\* what the user may do at the template menu of directory d
Selections(d) ==
    {Interrupted}
    \cup {Answer(o) : o \in Range(buildOptionsWithNone(findTemplates(d).templates, d))}

BaseAnswers == {Interrupted, Answer(W_fix_it), Answer(W_fix_it_padded), Answer(W_blank)}
IncludeAnswers == {"interrupt", "yes", "no"}
GetwdResults == {GetwdFails, GetwdReturns(Cwd)}

Answers(files) ==
    [base : BaseAnswers, pre : Selections(files["pre"]), post : Selections(files["post"]),
     include : IncludeAnswers, getwd : GetwdResults]

(***************************************************************************)
(* internal/app/app.go: Run.  The orchestrator is outside the files        *)
(* modelled here: a step of it succeeds, or fails with a structured error  *)
(* of its constructors, as its specification says.                         *)
(***************************************************************************)
\* the texts of app.go
R_configuration ==
    <<"c","o","n","f","i","g","u","r","a","t","i","o","n"," ","e","r","r",
      "o","r",":"," ">>
R_collect ==
    <<"f","a","i","l","e","d"," ","t","o"," ","c","o","l","l","e","c","t",
      " ","i","n","p","u","t","s",":"," ">>
R_generate ==
    <<"p","r","o","m","p","t"," ","g","e","n","e","r","a","t","i","o","n",
      " ","f","a","i","l","e","d",":"," ">>

RunSteps == <<"LoadConfiguration", "CollectMissingInputs", "GeneratePrompt", "OutputPrompt">>

StepAfter(step) ==
    CASE step = "LoadConfiguration" -> "CollectMissingInputs"
      [] step = "CollectMissingInputs" -> "GeneratePrompt"
      [] step = "GeneratePrompt" -> "OutputPrompt"
      [] step = "OutputPrompt" -> "return"

\* the run going on to the next step after a step that failed
After_ContinueOnError(step, e) == StepAfter(step)

\* where Run is after a step that returned the error e
After(step, e) == IF e # Nil THEN "return" ELSE StepAfter(step)

LoadConfigurationErrors ==
    {NewConfigurationError(S_not_found, New(S_does_not_exist)).err,
     NewConfigurationError(W_invalid, Nil).err}

GeneratePromptErrors ==
    {NewTemplateError(W_a, New(S_not_found)).err,
     NewContentCollectionError(A_src, New(E_permission_denied)).err,
     NewFixModeError(A_fix_file, New(S_empty)).err,
     NewValidationError(A_base_prompt, <<>>, A_required).err}

OutputPromptErrors ==
    {NewOutputError(W_clipboard, New(E_exit_1)).err,
     NewOutputError(A_file_out, New(E_permission_denied)).err}

\* the requests Run is given
RunRequests ==
    {PromptRequest(i, f, b, <<>>, <<>>, <<>>, <<>>) :
        i \in BOOLEAN, f \in BOOLEAN, b \in {<<>>, W_fix_it}}

(***************************************************************************)
(* internal/interactive/prompter.go: truncateString.  A string is its      *)
(* bytes: len(s) counts them and s[:n] cuts between them.                  *)
(***************************************************************************)
\* the longest string handed to truncateString
MaxStringLen == 6
\* the largest maxLen handed to truncateString
MaxTruncateLen == 7

Ellipsis == <<".", ".", ".">>

TruncateBytes == {"a", "."}
TruncateStrings == UNION {[1..n -> TruncateBytes] : n \in 0..MaxStringLen}
TruncateLens == 0..MaxTruncateLen

\* what a call gives: the string returned, or the panic of a slice bound
\* below zero
Returns(s) == [panic |-> FALSE, value |-> s]
SlicePanic == [panic |-> TRUE, value |-> <<>>]

\* the cut made at maxLen, without room for the "..."
truncateString_CutAtMaxLen(s, maxLen) ==
    IF Len(s) <= maxLen THEN Returns(s)
    ELSE Returns(SubSeq(s, 1, maxLen) \o Ellipsis)

truncateString(s, maxLen) ==
    IF Len(s) <= maxLen THEN Returns(s)
    ELSE IF maxLen - 3 < 0 THEN SlicePanic
    ELSE Returns(SubSeq(s, 1, maxLen - 3) \o Ellipsis)

(***************************************************************************)
(* internal/template: the helpers indent and dedent.  Their implementation *)
(* is outside the files modelled here; they follow their specification and *)
(* the values of the processor's tests.  A text is its lines, separated by *)
(* "\n".  indent leaves the empty lines alone; for dedent a blank line is  *)
(* one that holds nothing but spaces.                                      *)
(***************************************************************************)
\* the longest text handed to a helper
MaxTextLen == 6
\* the largest n handed to indent
MaxIndent == 2

Space == " "
NewLine == "\n"

\* strings.Split(s, sep) for a separator of one character
RECURSIVE Split(_, _)
Split(s, sep) ==
    LET i == Index(s, <<sep>>) IN
    IF i = 0 THEN <<s>>
    ELSE <<SubSeq(s, 1, i - 1)>> \o Split(SubSeq(s, i + 1, Len(s)), sep)

\* strings.Join(elems, sep)
RECURSIVE Join(_, _)
Join(elems, sep) ==
    IF elems = <<>> THEN <<>>
    ELSE IF Len(elems) = 1 THEN elems[1]
    ELSE elems[1] \o <<sep>> \o Join(Tail(elems), sep)

\* strings.Repeat(c, count) for one character
Repeat(c, count) == [i \in 1..count |-> c]

LeadingSpaces(line) == Len(line) - Len(TrimLeft(line, Space))

\* an indent that pads the blank lines too
indentFunc_PadBlank(spaces, text) ==
    LET lines == Split(text, NewLine) IN
    Join([i \in 1..Len(lines) |-> Repeat(Space, spaces) \o lines[i]], NewLine)

indentFunc(spaces, text) ==
    LET lines == Split(text, NewLine) IN
    Join([i \in 1..Len(lines) |->
             IF lines[i] # <<>> THEN Repeat(Space, spaces) \o lines[i] ELSE lines[i]],
         NewLine)

\* a blank line: empty, or of spaces only
Blank(line) == \A i \in 1..Len(line) : line[i] = Space

\* the minimum leading-space count across the non-blank lines; -1 when
\* every line is blank
MinIndent(lines) ==
    LET counts == {LeadingSpaces(lines[i]) : i \in {j \in 1..Len(lines) : ~Blank(lines[j])}} IN
    IF counts = {} THEN -1
    ELSE CHOOSE m \in counts : \A k \in counts : m <= k

\* a dedent that strips every leading space of every line
dedentFunc_StripAll(text) ==
    LET lines == Split(text, NewLine) IN
    Join([i \in 1..Len(lines) |-> TrimLeft(lines[i], Space)], NewLine)

dedentFunc(text) ==
    LET lines == Split(text, NewLine)
        minIndent == MinIndent(lines)
    IN  IF minIndent <= 0 THEN text
        ELSE Join([i \in 1..Len(lines) |->
                      IF ~Blank(lines[i])
                      THEN SubSeq(lines[i], minIndent + 1, Len(lines[i]))
                      ELSE lines[i]],
                  NewLine)

HelperBytes == {Space, "a", NewLine}
\* every text of at most MaxTextLen characters
HelperTexts == UNION {[1..n -> HelperBytes] : n \in 0..MaxTextLen}
Indents == 0..MaxIndent


(***************************************************************************)
(* The state before any call, component by component.                      *)
(***************************************************************************)
NoFilesystem == [k \in Kinds |-> Missing]
Unresolved == [f \in Fields |-> Unset]

PrompterIdle ==
    /\ op = "init"
    /\ subdir = "pre"
    /\ templates = <<>>
    /\ findErr = FALSE
    /\ options = <<>>

LoadIdle ==
    /\ loadName = <<>>
    /\ loadResult = NotLoaded

ConfigIdle ==
    /\ cfgFile = NoFlags
    /\ cfgEnv = [k \in EnvKeys |-> Unset]
    /\ cfgFlags = NoFlags
    /\ resolved = Unresolved

ValidateIdle ==
    /\ candidate = NilConfig
    /\ validateErr = "not called"

\* expandPath returns no empty path: the empty one stands for "not called"
Unexpanded == <<>>

PathIdle ==
    /\ pathIn = Slash
    /\ pathHome = Slash
    /\ pathOut = Unexpanded

NothingMade == [ctor |-> "none", arg |-> <<>>, cause |-> Nil, panic |-> FALSE, out |-> Nil]

NotRecovered ==
    [called |-> FALSE, in |-> Nil, out |-> Nil, home |-> "ok", dir |-> "exists",
     dirAfter |-> "exists", mkdirs |-> 0, mkdirOk |-> FALSE,
     again |-> FALSE, out2 |-> Nil, dir2 |-> "exists", mkdirs2 |-> 0]

NotAsked == [asked |-> FALSE, of |-> Nil, result |-> FALSE]

ErrorsIdle ==
    /\ err = Nil
    /\ made = NothingMade
    /\ recovery = NotRecovered
    /\ recoverable = NotAsked
    /\ userHome = "ok"
    /\ configDir = "exists"

NotCollected == [called |-> FALSE, entry |-> NoRequest, err |-> Nil, asked |-> <<>>]

CollectIdle ==
    /\ runRequest = NoRequest
    /\ collected = NotCollected

RunIdle ==
    /\ runPc = "idle"
    /\ runCalls = <<>>
    /\ runErr = Nil

NotTruncated == [called |-> FALSE, result |-> Returns(<<>>)]

TruncateIdle ==
    /\ truncIn = <<>>
    /\ truncLen = 0
    /\ truncOut = NotTruncated

HelperIdle ==
    /\ helperIn = <<>>
    /\ helperCall = "none"
    /\ helperN = 0
    /\ helperOut = <<>>

AppIdle ==
    /\ PathIdle
    /\ ErrorsIdle
    /\ CollectIdle
    /\ RunIdle
    /\ TruncateIdle
    /\ HelperIdle

(***************************************************************************)
(* The prompter: a prompts location, and the calls made on it.             *)
(***************************************************************************)
Init ==
    /\ \E k \in Kinds, d \in DirStates :
          fs = [x \in Kinds |-> IF x = k THEN d ELSE Missing]
    /\ PrompterIdle
    /\ LoadIdle
    /\ ConfigIdle
    /\ ValidateIdle
    /\ AppIdle

FindTemplates(k) ==
    /\ op' = "find"
    /\ subdir' = k
    /\ templates' = findTemplates(fs[k]).templates
    /\ findErr' = findTemplates(fs[k]).err
    /\ options' = <<>>
    /\ UNCHANGED <<fs, loadVars, configVars, validateVars, appVars>>

\* promptForPreTemplate / promptForPostTemplate build the menu from the
\* templates just found, unless findTemplates failed
BuildOptionsWithNone ==
    /\ op = "find"
    /\ ~findErr
    /\ op' = "build"
    /\ options' = buildOptionsWithNone(templates, fs[subdir])
    /\ UNCHANGED <<fs, subdir, templates, findErr, loadVars, configVars, validateVars, appVars>>

Next ==
    \/ \E k \in Kinds : FindTemplates(k)
    \/ BuildOptionsWithNone

Spec == Init /\ [][Next]_vars

(***************************************************************************)
(* The option menu on its own: buildOptionsWithNone is handed the result   *)
(* of findTemplates, as the prompt functions do, or a list of the caller,  *)
(* over a pre directory that is missing, unreadable or readable.           *)
(***************************************************************************)
InitOptions ==
    /\ \E d \in {Readable(c) : c \in CatalogueDirs} \cup {Missing, Unreadable} :
          fs = [x \in Kinds |-> IF x = "pre" THEN d ELSE Missing]
    /\ PrompterIdle
    /\ LoadIdle
    /\ ConfigIdle
    /\ ValidateIdle
    /\ AppIdle

\* p.buildOptionsWithNone(ts, k), as the first call on the prompter
BuildOptionsFor(k, ts) ==
    /\ op = "init"
    /\ op' = "build"
    /\ subdir' = k
    /\ templates' = ts
    /\ findErr' = FALSE
    /\ options' = buildOptionsWithNone(ts, fs[k])
    /\ UNCHANGED <<fs, loadVars, configVars, validateVars, appVars>>

NextOptions ==
    \/ \E k \in Kinds : FindTemplates(k)
    \/ BuildOptionsWithNone
    \/ \E k \in Kinds, ts \in TemplateLists : BuildOptionsFor(k, ts)

SpecOptions == InitOptions /\ [][NextOptions]_vars

(***************************************************************************)
(* The template processor: a prompts location, and lookups by name.        *)
(***************************************************************************)
InitLoad ==
    /\ fs \in [Kinds -> LoadDirs]
    /\ PrompterIdle
    /\ LoadIdle
    /\ ConfigIdle
    /\ ValidateIdle
    /\ AppIdle

DoLoadTemplate(name) ==
    /\ loadName' = name
    /\ loadResult' = LoadTemplate(name, fs)
    /\ UNCHANGED <<fs, prompterVars, configVars, validateVars, appVars>>

NextLoad == \E name \in LoadNames : DoLoadTemplate(name)

SpecLoad == InitLoad /\ [][NextLoad]_vars

(***************************************************************************)
(* The configuration manager: a file and an environment, then SetFlag and  *)
(* Resolve calls in any order.                                             *)
(***************************************************************************)
InitConfig ==
    /\ fs = NoFilesystem
    /\ PrompterIdle
    /\ LoadIdle
    /\ cfgFile \in FileLayers
    /\ cfgEnv \in EnvLayers
    /\ cfgFlags = NoFlags
    /\ resolved = Unresolved
    /\ ValidateIdle
    /\ AppIdle

\* SetFlag records the value; what an earlier Resolve returned no longer
\* describes the manager and is forgotten
SetFlag(f, v) ==
    /\ cfgFlags' = [cfgFlags EXCEPT ![f] = Set(v)]
    /\ resolved' = Unresolved
    /\ UNCHANGED <<fs, prompterVars, loadVars, cfgFile, cfgEnv, validateVars, appVars>>

DoResolve ==
    /\ resolved' = [f \in Fields |-> Set(Resolve(cfgFlags, cfgEnv, cfgFile)[f])]
    /\ UNCHANGED <<fs, prompterVars, loadVars, cfgFile, cfgEnv, cfgFlags, validateVars, appVars>>

\* MergeConfig(other): the manager holds the values of other in place of the
\* ones it held, below the flags; what an earlier Resolve returned is
\* forgotten.  Merged while the environment gives none of the keys, as in
\* TestManager_MergeConfig
MergeConfig(other) ==
    /\ \A f \in Fields : other[f] # Unset => cfgEnv[EnvKey(f)] = Unset
    /\ cfgFile' = [f \in Fields |-> IF other[f] # Unset THEN other[f] ELSE cfgFile[f]]
    /\ resolved' = Unresolved
    /\ UNCHANGED <<fs, prompterVars, loadVars, cfgEnv, cfgFlags, validateVars, appVars>>

NextConfig ==
    \/ \E f \in Fields : \E v \in FlagValues(f) : SetFlag(f, v)
    \/ DoResolve
    \/ \E other \in MergedConfigs : MergeConfig(other)

SpecConfig == InitConfig /\ [][NextConfig]_vars

(***************************************************************************)
(* Validate, on one configuration.                                         *)
(***************************************************************************)
InitValidate ==
    /\ fs = NoFilesystem
    /\ PrompterIdle
    /\ LoadIdle
    /\ ConfigIdle
    /\ candidate \in Configs
    /\ validateErr = "not called"
    /\ AppIdle

DoValidate ==
    /\ validateErr' = Validate(candidate)
    /\ UNCHANGED <<fs, prompterVars, loadVars, configVars, candidate, appVars>>

NextValidate == DoValidate

SpecValidate == InitValidate /\ [][NextValidate]_vars


(***************************************************************************)
(* expandPath, on one path and one home directory.                         *)
(***************************************************************************)
InitPath ==
    /\ fs = NoFilesystem
    /\ PrompterIdle
    /\ LoadIdle
    /\ ConfigIdle
    /\ ValidateIdle
    /\ HelperIdle
    /\ pathIn \in Paths
    /\ pathHome \in HomeDirs
    /\ pathOut = Unexpanded
    /\ ErrorsIdle
    /\ CollectIdle
    /\ RunIdle
    /\ TruncateIdle

DoExpandPath ==
    /\ pathOut' = expandPath(pathIn, pathHome)
    /\ UNCHANGED <<fs, prompterVars, loadVars, configVars, validateVars, helperVars,
                   pathIn, pathHome,
                   errorVars, collectVars, runVars, truncateVars>>

NextPath == DoExpandPath

SpecPath == InitPath /\ [][NextPath]_vars


(***************************************************************************)
(* The error layer: errors are built by the constructors, by errors.New,   *)
(* by fmt.Errorf and as struct literals, and handed to RecoverFromError    *)
(* and IsRecoverableError.                                                 *)
(***************************************************************************)
InitErrors ==
    /\ fs = NoFilesystem
    /\ PrompterIdle
    /\ LoadIdle
    /\ ConfigIdle
    /\ ValidateIdle
    /\ HelperIdle
    /\ PathIdle
    /\ err = Nil
    /\ made = NothingMade
    /\ recovery = NotRecovered
    /\ recoverable = NotAsked
    /\ userHome \in {"ok", "unavailable"}
    /\ configDir \in {"missing", "exists", "unknown"}
    /\ userHome = "unavailable" => configDir = "unknown"
    /\ CollectIdle
    /\ RunIdle
    /\ TruncateIdle

\* the call ctor(arg, cause) returned r, or panicked
Make(ctor, arg, cause, r) ==
    /\ ~recovery.called
    /\ ~recoverable.asked
    /\ made' = [ctor |-> ctor, arg |-> arg, cause |-> cause, panic |-> r.panic, out |-> r.err]
    /\ err' = r.err
    /\ recovery' = NotRecovered
    /\ recoverable' = NotAsked
    /\ UNCHANGED <<fs, prompterVars, loadVars, configVars, validateVars, helperVars,
                   pathVars,
                   userHome, configDir, collectVars, runVars,
                   truncateVars>>

MakeNew(text) ==
    /\ err = Nil
    /\ Make("New", text, Nil, Built(New(text)))

MakeConfigurationError(message, cause) ==
    Make("NewConfigurationError", message, cause, NewConfigurationError(message, cause))

MakeTemplateError(templateName, cause) ==
    Make("NewTemplateError", templateName, cause, NewTemplateError(templateName, cause))

MakeContentCollectionError(path, cause) ==
    Make("NewContentCollectionError", path, cause, NewContentCollectionError(path, cause))

MakeFixModeError(fixFile, cause) ==
    Make("NewFixModeError", fixFile, cause, NewFixModeError(fixFile, cause))

MakeOutputError(target, cause) ==
    Make("NewOutputError", target, cause, NewOutputError(target, cause))

MakeValidationError(field) ==
    /\ err = Nil
    /\ Make("NewValidationError", field, Nil, NewValidationError(field, W_a, A_required))

\* &PrompterError{Type: type, Message: message, Guidance: ...}
MakeLiteral(type, message) ==
    /\ err = Nil
    /\ Make("PrompterError", message, Nil, Built(PrompterError(type, message, G_Usage, Nil)))

\* fmt.Errorf("output failed: %w", err), as app.Run wraps what it is returned
Wrap ==
    /\ err # Nil
    /\ ~recovery.called
    /\ ~recoverable.asked
    /\ Wraps(err) < MaxWraps
    /\ err' = Errorf(A_output_failed, err)
    /\ recovery' = NotRecovered
    /\ recoverable' = NotAsked
    /\ UNCHANGED <<fs, prompterVars, loadVars, configVars, validateVars, helperVars,
                   pathVars,
                   made, userHome, configDir, collectVars, runVars,
                   truncateVars>>

DoRecoverFromError(mkdirOk) ==
    LET r == RecoverFromError(err, userHome, configDir, mkdirOk) IN
    /\ recovery' = [called |-> TRUE, in |-> err, out |-> r.out, home |-> userHome,
                    dir |-> configDir, dirAfter |-> r.dir, mkdirs |-> r.mkdirs,
                    mkdirOk |-> (r.mkdirs > 0 /\ mkdirOk),
                    again |-> FALSE, out2 |-> Nil, dir2 |-> r.dir, mkdirs2 |-> 0]
    /\ err' = r.err
    /\ configDir' = r.dir
    /\ recoverable' = NotAsked
    /\ UNCHANGED <<fs, prompterVars, loadVars, configVars, validateVars, helperVars,
                   pathVars,
                   made, userHome, collectVars, runVars, truncateVars>>

\* RecoverFromError(RecoverFromError(err)): the error returned is handed in
\* again, os.MkdirAll doing what it did in the first call.  The error
\* returned for a structured err is the *PrompterError err holds, so what
\* the second call writes shows in err.
DoRecoverAgain ==
    LET r == RecoverFromError(recovery.out, userHome, configDir, recovery.mkdirOk) IN
    /\ recovery.called
    /\ ~recovery.again
    /\ recovery' = [recovery EXCEPT !.again = TRUE, !.out2 = r.out, !.dir2 = r.dir,
                                    !.mkdirs2 = r.mkdirs]
    /\ err' = IF err # Nil /\ As(err) # 0 /\ r.out # Nil
              THEN SetGuidance(err, As(err), r.out[1].guidance)
              ELSE err
    /\ configDir' = r.dir
    /\ recoverable' = NotAsked
    /\ UNCHANGED <<fs, prompterVars, loadVars, configVars, validateVars, helperVars,
                   pathVars,
                   made, userHome, collectVars, runVars, truncateVars>>

DoIsRecoverableError ==
    /\ recoverable' = [asked |-> TRUE, of |-> err, result |-> IsRecoverableError(err)]
    /\ UNCHANGED <<fs, prompterVars, loadVars, configVars, validateVars, helperVars,
                   pathVars,
                   err, made, recovery, userHome, configDir, collectVars, runVars,
                   truncateVars>>

NextErrors ==
    \/ \E t \in CauseTexts : MakeNew(t)
    \/ \E m \in ConfigMessages, c \in Causes(err) : MakeConfigurationError(m, c)
    \/ \E c \in Causes(err) : MakeTemplateError(W_a, c)
    \/ \E c \in Causes(err) : MakeContentCollectionError(A_src, c)
    \/ \E c \in Causes(err) : MakeFixModeError(A_fix_file, c)
    \/ \E t \in OutputTargets, c \in Causes(err) : MakeOutputError(t, c)
    \/ \E f \in ValidationFields : MakeValidationError(f)
    \/ \E t \in ErrorTypes, m \in LiteralMessages : MakeLiteral(t, m)
    \/ Wrap
    \/ \E mkdirOk \in BOOLEAN : DoRecoverFromError(mkdirOk)
    \/ DoRecoverAgain
    \/ DoIsRecoverableError

SpecErrors == InitErrors /\ [][NextErrors]_vars


(***************************************************************************)
(* CollectMissingInputs, on one request, one prompts location and one      *)
(* user.                                                                   *)
(***************************************************************************)
InitCollect ==
    /\ fs \in [Kinds -> CollectDirs]
    /\ PrompterIdle
    /\ LoadIdle
    /\ ConfigIdle
    /\ ValidateIdle
    /\ HelperIdle
    /\ PathIdle
    /\ ErrorsIdle
    /\ runRequest \in Requests
    /\ collected = NotCollected
    /\ RunIdle
    /\ TruncateIdle

DoCollectMissingInputs(answers) ==
    LET r == CollectMissingInputs(runRequest, fs, answers) IN
    /\ ~collected.called
    /\ runRequest' = r.request
    /\ collected' = [called |-> TRUE, entry |-> runRequest, err |-> r.err, asked |-> r.asked]
    /\ UNCHANGED <<fs, prompterVars, loadVars, configVars, validateVars, helperVars,
                   pathVars,
                   errorVars, runVars, truncateVars>>

NextCollect == \E answers \in Answers(fs) : DoCollectMissingInputs(answers)

SpecCollect == InitCollect /\ [][NextCollect]_vars

(***************************************************************************)
(* Run, on one request: its four steps, one after the other.               *)
(***************************************************************************)
InitRun ==
    /\ fs \in [Kinds -> CollectDirs]
    /\ PrompterIdle
    /\ LoadIdle
    /\ ConfigIdle
    /\ ValidateIdle
    /\ HelperIdle
    /\ PathIdle
    /\ ErrorsIdle
    /\ runRequest \in RunRequests
    /\ collected = NotCollected
    /\ runPc = "LoadConfiguration"
    /\ runCalls = <<>>
    /\ runErr = Nil
    /\ TruncateIdle

\* the step was called and returned e; on an error Run returns it wrapped
RunStep(step, prefix, e) ==
    /\ runPc = step
    /\ runCalls' = Append(runCalls, [step |-> step, ok |-> e = Nil])
    /\ runErr' = IF e = Nil THEN runErr ELSE Errorf(prefix, e)
    /\ runPc' = After(step, e)
    /\ UNCHANGED <<fs, prompterVars, loadVars, configVars, validateVars, helperVars,
                   pathVars,
                   errorVars, truncateVars>>

RunLoadConfiguration(e) ==
    /\ RunStep("LoadConfiguration", R_configuration, e)
    /\ UNCHANGED collectVars

RunCollectMissingInputs(answers) ==
    LET r == CollectMissingInputs(runRequest, fs, answers) IN
    /\ RunStep("CollectMissingInputs", R_collect, r.err)
    /\ runRequest' = r.request
    /\ collected' = [called |-> TRUE, entry |-> runRequest, err |-> r.err, asked |-> r.asked]

RunGeneratePrompt(e) ==
    /\ RunStep("GeneratePrompt", R_generate, e)
    /\ UNCHANGED collectVars

RunOutputPrompt(e) ==
    /\ RunStep("OutputPrompt", A_output_failed, e)
    /\ UNCHANGED collectVars

NextRun ==
    \/ \E e \in {Nil} \cup LoadConfigurationErrors : RunLoadConfiguration(e)
    \/ \E answers \in Answers(fs) : RunCollectMissingInputs(answers)
    \/ \E e \in {Nil} \cup GeneratePromptErrors : RunGeneratePrompt(e)
    \/ \E e \in {Nil} \cup OutputPromptErrors : RunOutputPrompt(e)

SpecRun == InitRun /\ [][NextRun]_vars


(***************************************************************************)
(* truncateString, on one string and one length.                           *)
(***************************************************************************)
InitTruncate ==
    /\ fs = NoFilesystem
    /\ PrompterIdle
    /\ LoadIdle
    /\ ConfigIdle
    /\ ValidateIdle
    /\ HelperIdle
    /\ PathIdle
    /\ ErrorsIdle
    /\ CollectIdle
    /\ RunIdle
    /\ truncIn \in TruncateStrings
    /\ truncLen \in TruncateLens
    /\ truncOut = NotTruncated

DoTruncateString ==
    /\ truncOut' = [called |-> TRUE, result |-> truncateString(truncIn, truncLen)]
    /\ UNCHANGED <<fs, prompterVars, loadVars, configVars, validateVars, helperVars,
                   pathVars,
                   errorVars, collectVars, runVars, truncIn, truncLen>>

NextTruncate == DoTruncateString

SpecTruncate == InitTruncate /\ [][NextTruncate]_vars


(***************************************************************************)
(* The template helpers, on one text: indent once, or dedent and then      *)
(* dedent its result.                                                      *)
(***************************************************************************)
InitHelpers ==
    /\ fs = NoFilesystem
    /\ PrompterIdle
    /\ LoadIdle
    /\ ConfigIdle
    /\ ValidateIdle
    /\ PathIdle
    /\ ErrorsIdle
    /\ CollectIdle
    /\ RunIdle
    /\ TruncateIdle
    /\ helperIn \in HelperTexts
    /\ helperCall = "none"
    /\ helperN = 0
    /\ helperOut = <<>>

DoIndent(n) ==
    /\ helperCall = "none"
    /\ helperCall' = "indent"
    /\ helperN' = n
    /\ helperOut' = <<indentFunc(n, helperIn)>>
    /\ UNCHANGED <<fs, prompterVars, loadVars, configVars, validateVars, pathVars,
                   errorVars, collectVars, runVars, truncateVars, helperIn>>

DoDedent ==
    /\ helperCall = "none"
    /\ helperCall' = "dedent"
    /\ helperOut' = <<dedentFunc(helperIn)>>
    /\ UNCHANGED <<fs, prompterVars, loadVars, configVars, validateVars, pathVars,
                   errorVars, collectVars, runVars, truncateVars, helperIn, helperN>>

DoDedentAgain ==
    /\ helperCall = "dedent"
    /\ helperCall' = "dedent again"
    /\ helperOut' = Append(helperOut, dedentFunc(helperOut[1]))
    /\ UNCHANGED <<fs, prompterVars, loadVars, configVars, validateVars, pathVars,
                   errorVars, collectVars, runVars, truncateVars, helperIn, helperN>>

NextHelpers ==
    \/ \E n \in Indents : DoIndent(n)
    \/ DoDedent
    \/ DoDedentAgain

SpecHelpers == InitHelpers /\ [][NextHelpers]_vars


(***************************************************************************)
(* Template discovery and the option menu: definitions the properties use. *)
(***************************************************************************)
\* the template files of a directory in the order os.ReadDir lists them
Eligible(d) == SelectSeq(ReadDir(d), LAMBDA e : ~e.isDir /\ HasSuffix(e.name, MdSuffix))

\* a file name without its last three characters, ".md"
StemOf(e) == SubSeq(e.name, 1, Len(e.name) - 3)

\* a stem that carries the default marker, inside or at its end
Marked(stem) == Occurrences(stem, DefaultInfix) # {} \/ HasSuffix(stem, DefaultSuffix)

NumDefaults(es) == Cardinality({i \in 1..Len(es) : Marked(StemOf(es[i]))})

\* where the i-th template file is listed: defaults first, each group in read order
ListPos(es, i) ==
    IF Marked(StemOf(es[i]))
    THEN Cardinality({j \in 1..i : Marked(StemOf(es[j]))})
    ELSE NumDefaults(es) + Cardinality({j \in 1..i : ~Marked(StemOf(es[j]))})

\* the same with the sentinel between the two groups
MenuPos(es, i) == IF Marked(StemOf(es[i])) THEN ListPos(es, i) ELSE ListPos(es, i) + 1

\* the directory the last findTemplates call looked at
Looked == fs[subdir]

Found == op # "init" /\ Looked.state = "dir"

\* C1: findTemplates lists the display names of the default templates first and
\* those of the regular templates after them, each group in the order in which
\* the directory entries were read.
C1_DefaultsFirstInReadOrder ==
    Found =>
        LET es == Eligible(Looked.entries) IN
        /\ ~findErr
        /\ Len(templates) = Len(es)
        /\ \A i \in 1..Len(es) : templates[ListPos(es, i)] = Classify(StemOf(es[i])).display

\* a regular file is read before a default one, and two defaults are listed in
\* read order although their display names are in the opposite order
C1_Witness ==
    /\ op = "find"
    /\ Looked.state = "dir"
    /\ LET es == Eligible(Looked.entries) IN
       /\ \E i, j \in 1..Len(es) : i < j /\ ~Marked(StemOf(es[i])) /\ Marked(StemOf(es[j]))
       /\ NumDefaults(es) >= 2
       /\ StrLess(templates[2], templates[1])

\* C2: buildOptionsWithNone(findTemplates(kind), kind) lists the default
\* templates, then the sentinel "None", then the regular templates, for every
\* directory content.
C2_NoneBetweenDefaultsAndRegulars ==
    (op = "build" /\ Looked.state = "dir") =>
        LET es == Eligible(Looked.entries) IN
        /\ Len(options) = Len(es) + 1
        /\ options[NumDefaults(es) + 1] = None
        /\ \A i \in 1..Len(es) : options[MenuPos(es, i)] = Classify(StemOf(es[i])).display

\* C3: only the non-directory entries whose name ends with ".md" contribute to
\* the result of findTemplates, one name each.
C3_OnlyTemplateFiles ==
    Found =>
        LET ok == {e \in Looked.entries : ~e.isDir /\ HasSuffix(e.name, MdSuffix)} IN
        /\ Len(templates) = Cardinality(ok)
        /\ \A i \in 1..Len(templates) :
              \E e \in ok : templates[i] = Classify(StemOf(e)).display
        /\ Looked.entries = {File(W_template \o <<"1">> \o MdSuffix),
                             File(W_template \o <<"2">> \o MdSuffix),
                             File(W_not \o <<"-">> \o W_template \o Dot \o W_txt)}
              => templates = <<W_template \o <<"1">>, W_template \o <<"2">> >>

\* a directory with a subdirectory named *.md, a file of another extension and
\* a template file has been listed
C3_Witness ==
    /\ op = "find"
    /\ Looked.state = "dir"
    /\ \E e \in Looked.entries : e.isDir /\ HasSuffix(e.name, MdSuffix)
    /\ \E e \in Looked.entries : ~e.isDir /\ ~HasSuffix(e.name, MdSuffix)
    /\ Len(templates) = 1

\* C4: for a subdirectory that does not exist findTemplates returns an empty
\* sequence and no error, and the menu built from it is just the sentinel.
C4_MissingDirectoryIsEmpty ==
    (op # "init" /\ Looked.state = "missing") =>
        /\ templates = <<>>
        /\ ~findErr
        /\ op = "build" => options = <<None>>

C4_Witness == op = "build" /\ Looked.state = "missing"

\* how many times x is listed in seq
Count(seq, x) == Cardinality({i \in 1..Len(seq) : seq[i] = x})

\* C29: no discovered template is lost or merged: findTemplates returns one
\* display name for each eligible file, also when two files have the same
\* display name, and buildOptionsWithNone(templates, kind) returns
\* len(templates) + 1 entries, which are the elements of templates, each as
\* many times as it is in templates, and one added "None"; when the
\* directory cannot be read, "None" comes first and templates follows as
\* it was
C29_NoTemplateLostOrMerged ==
    /\ (op = "find" /\ Looked.state = "dir") =>
          LET es == Eligible(Looked.entries) IN
          /\ Len(templates) = Len(es)
          /\ \A i \in 1..Len(es) :
                Count(templates, Classify(StemOf(es[i])).display) =
                   Cardinality({j \in 1..Len(es) :
                                  Classify(StemOf(es[j])).display =
                                  Classify(StemOf(es[i])).display})
    /\ op = "build" =>
          /\ Len(options) = Len(templates) + 1
          /\ \A i \in 1..Len(options) :
                Count(options, options[i]) =
                   Count(templates, options[i]) + (IF options[i] = None THEN 1 ELSE 0)
          /\ Looked.state # "dir" => options = <<None>> \o templates

\* example.default.md and example.md were found as two templates called
\* example, and the menu built from them lists both
C29_Witness ==
    /\ op = "build"
    /\ Looked.state = "dir"
    /\ Looked.entries = {File(W_example \o DefaultInfix \o W_md), File(W_example \o MdSuffix)}
    /\ templates = <<W_example, W_example>>
    /\ Len(options) = 3
    /\ Count(options, W_example) = 2

(***************************************************************************)
(* The display name and the classification of one template file, observed  *)
(* on directories that hold exactly one template file.                     *)
(***************************************************************************)
Single == Found /\ Len(Eligible(Looked.entries)) = 1

TheStem == StemOf(Eligible(Looked.entries)[1])

\* s with the occurrence of the marker at p replaced by one separator
RemoveAt(s, p) == SubSeq(s, 1, p - 1) \o Dot \o SubSeq(s, p + Len(DefaultInfix), Len(s))

\* the occurrences a left-to-right scan without overlaps takes
Scanned(s) ==
    LET occ == Occurrences(s, DefaultInfix) IN
    CHOOSE P \in SUBSET occ :
        \A i \in occ : i \in P <=> ~\E j \in P : j < i /\ i < j + Len(DefaultInfix)

\* s without the characters of the occurrences in P, the last separator of each kept
Without(s, P) ==
    LET keep == {k \in 1..Len(s) : ~\E i \in P : i <= k /\ k < i + Len(DefaultInfix) - 1}
    IN [n \in 1..Cardinality(keep) |->
            s[CHOOSE k \in keep : Cardinality({m \in keep : m <= k}) = n]]

\* r is x without its leading and trailing separators
IsTrimOf(r, x) ==
    \E a \in 1..(Len(x) + 1), b \in 0..Len(x) :
        /\ r = SubSeq(x, a, b)
        /\ r # <<>> => r[1] # "." /\ r[Len(r)] # "."
        /\ \A k \in (1..(a - 1)) \cup ((b + 1)..Len(x)) : x[k] = "."

\* C5 (as stated): the display name of a stem that contains ".default." is the
\* stem with one occurrence of the marker removed, leading and trailing
\* separators trimmed.
C5_OneOccurrenceRemoved ==
    (Single /\ Occurrences(TheStem, DefaultInfix) # {}) =>
        \E p \in Occurrences(TheStem, DefaultInfix) :
            IsTrimOf(templates[1], RemoveAt(TheStem, p))

\* C5 (amended): the display name of a stem that contains ".default." is the
\* stem with every occurrence of the marker that a left-to-right scan without
\* overlaps finds replaced by one separator, leading and trailing separators
\* trimmed; with a single occurrence this is the stem with that occurrence
\* removed.
C5_EveryOccurrenceRemoved ==
    (Single /\ Occurrences(TheStem, DefaultInfix) # {}) =>
        /\ templates = <<templates[1]>>
        /\ IsTrimOf(templates[1], Without(TheStem, Scanned(TheStem)))
        /\ Cardinality(Occurrences(TheStem, DefaultInfix)) = 1 =>
              \E p \in Occurrences(TheStem, DefaultInfix) :
                  IsTrimOf(templates[1], RemoveAt(TheStem, p))

\* a stem with two separate occurrences of the marker has been listed
C5_Witness ==
    /\ op = "find"
    /\ Single
    /\ Cardinality(Scanned(TheStem)) = 2

\* C6: a template file is a default exactly when its stem contains ".default."
\* or ends with ".default"; a stem that only ends with the marker is shown
\* without it, and any other stem is a regular template shown as it is.
C6_DefaultClassification ==
    (op = "build" /\ Single) =>
        LET inside == Occurrences(TheStem, DefaultInfix) # {}
            atEnd == HasSuffix(TheStem, DefaultSuffix)
        IN /\ (inside \/ atEnd) => options = <<templates[1], None>>
           /\ (~inside /\ atEnd) =>
                 templates = <<SubSeq(TheStem, 1, Len(TheStem) - Len(DefaultSuffix))>>
           /\ (~inside /\ ~atEnd) => templates = <<TheStem>> /\ options = <<None, TheStem>>

\* the menu of a directory whose only template ends with ".default" has been built
C6_Witness ==
    /\ op = "build"
    /\ Single
    /\ Occurrences(TheStem, DefaultInfix) = {}
    /\ HasSuffix(TheStem, DefaultSuffix)
    /\ Len(TheStem) > Len(DefaultSuffix)

(***************************************************************************)
(* Template lookup by name.                                                *)
(***************************************************************************)
\* a and b are equal up to the case of their letters
SameFold(a, b) == Len(a) = Len(b) /\ \A i \in 1..Len(a) : LowerChar(a[i]) = LowerChar(b[i])

\* the template files, with their subdirectory, that the name asked for fits
Fitting ==
    {c \in UNION {{<<k, e>> : e \in fs[k].entries} : k \in Kinds} :
        /\ ~c[2].isDir
        /\ HasSuffix(c[2].name, MdSuffix)
        /\ \/ SameFold(loadName, StemOf(c[2]))
           \/ Marked(StemOf(c[2])) /\ SameFold(loadName, Classify(StemOf(c[2])).display)}

\* c is searched before d: pre before post, and by filename inside a subdirectory
SearchedBefore(c, d) ==
    \/ c[1] = "pre" /\ d[1] = "post"
    \/ c[1] = d[1] /\ StrLess(c[2].name, d[2].name)

StrictDefaultMd == File(W_strict \o DefaultInfix \o W_md)
ExampleDefaultMd == File(W_example \o DefaultInfix \o W_md)

\* C7: LoadTemplate(name) for a non-absolute name compares name, ignoring
\* case, with the stem of every template file of pre and post and, for files
\* with the default marker, with the display name; the first match is loaded
\* and no match is a not-found error.
C7_LoadTemplateFirstMatch ==
    (loadResult.status # "none" /\ Head(loadName) # "/") =>
        /\ Fitting = {} <=> loadResult.status = "not found"
        /\ Fitting # {} =>
              /\ loadResult.status = "loaded"
              /\ <<loadResult.kind, File(loadResult.file)>> \in Fitting
              /\ \A c \in Fitting \ {<<loadResult.kind, File(loadResult.file)>>} :
                    SearchedBefore(<<loadResult.kind, File(loadResult.file)>>, c)
        /\ (loadName = ToUpper(W_strict) /\ \E k \in Kinds : StrictDefaultMd \in fs[k].entries)
              => loadResult.file = StrictDefaultMd.name
        /\ (/\ loadName \in {W_example, W_example \o DefaultSuffix}
            /\ fs["pre"].entries = {File(W_regular \o MdSuffix), ExampleDefaultMd})
              => loadResult.file = ExampleDefaultMd.name
        /\ loadName = W_nonexistent => loadResult.status = "not found"

\* "STRICT" has loaded pre/strict.default.md although post holds a match too
C7_Witness ==
    /\ loadName = ToUpper(W_strict)
    /\ loadResult = Loaded("pre", StrictDefaultMd)
    /\ StrictDefaultMd \in fs["post"].entries

(***************************************************************************)
(* The configuration manager.                                              *)
(***************************************************************************)
\* C8: for every configuration field, Resolve() returns the value of the
\* highest layer that supplies it: flags over environment variables over the
\* configuration file over the built-in defaults.
C8_ResolvePrecedence ==
    resolved # Unresolved =>
        \A f \in Fields :
            LET v == resolved[f][1]
                flag == cfgFlags[f]
                env == cfgEnv[EnvKey(f)]
                file == cfgFile[f]
            IN /\ flag # Unset => v = flag[1]
               /\ (flag = Unset /\ env # Unset) =>
                     v = (IF f = "max_file_size_bytes" THEN 8192 ELSE env[1])
               /\ (flag = Unset /\ env = Unset /\ file # Unset) => v = file[1]
               /\ (flag = Unset /\ env = Unset /\ file = Unset) => v = Defaults[f]

\* Resolve has returned with editor given by all three layers, the size limit
\* by environment and file only, and target by no layer
C8_Witness ==
    /\ resolved # Unresolved
    /\ cfgFlags["editor"] # Unset /\ cfgEnv["PROMPTER_EDITOR"] # Unset /\ cfgFile["editor"] # Unset
    /\ cfgFlags["max_file_size_bytes"] = Unset
    /\ cfgEnv["PROMPTER_MAX_FILE_SIZE_BYTES"] # Unset
    /\ cfgFile["max_file_size_bytes"] # Unset
    /\ cfgFlags["target"] = Unset /\ cfgEnv["PROMPTER_TARGET"] = Unset /\ cfgFile["target"] = Unset

\* C9: after any sequence of SetFlag calls Resolve() differs from what it
\* returns without them only in the fields named in a SetFlag call: every
\* other field keeps the value of the next lower layer that supplies it.
C9_SetFlagFrame ==
    resolved # Unresolved =>
        /\ \A f \in Fields :
              cfgFlags[f] = Unset => resolved[f][1] = Resolve(NoFlags, cfgEnv, cfgFile)[f]
        /\ (/\ cfgFlags["target"] = Unset
            /\ cfgEnv["PROMPTER_TARGET"] = Unset
            /\ cfgFile["target"] = Set(W_stdout))
              => resolved["target"] = Set(W_stdout)

\* editor and max_file_size_bytes were set as flags over a file that gives
\* editor, max_file_size_bytes and target, and Resolve has returned
C9_Witness ==
    /\ resolved # Unresolved
    /\ cfgFlags = [editor |-> Set(W_vim), max_file_size_bytes |-> Set(32768), target |-> Unset]
    /\ cfgFile = [editor |-> Set(W_nano), max_file_size_bytes |-> Set(16384), target |-> Set(W_stdout)]
    /\ cfgEnv["PROMPTER_TARGET"] = Unset

\* C10: Validate returns an error exactly when the config is nil, a size limit
\* is negative, directory_strategy is neither git nor filesystem, or target is
\* neither clipboard nor stdout nor a text that starts with "file:".
C10_ValidateRejects ==
    validateErr # "not called" =>
        LET c == candidate
            fileTarget == Len(c.target) >= 5 /\ SubSeq(c.target, 1, 5) = <<"f","i","l","e",":">>
        IN validateErr # "nil" <=>
              \/ c.isNil
              \/ c.max_file_size_bytes < 0
              \/ c.max_total_bytes < 0
              \/ c.directory_strategy \notin {W_git, W_filesystem}
              \/ c.target \notin {W_clipboard, W_stdout} /\ ~fileTarget

\* a config whose target is "file:" alone has been accepted
C10_Witness ==
    /\ validateErr = "nil"
    /\ candidate.target = <<"f","i","l","e",":">>
    /\ candidate.max_file_size_bytes = 0

(***************************************************************************)
(* Path expansion.                                                         *)
(***************************************************************************)
\* the segments of a path, read off its characters
RECURSIVE SplitPath(_)
SplitPath(p) ==
    IF Index(p, Slash) = 0 THEN <<p>>
    ELSE <<SubSeq(p, 1, Index(p, Slash) - 1)>>
         \o SplitPath(SubSeq(p, Index(p, Slash) + 1, Len(p)))

Expanded == pathOut # Unexpanded

\* C11: expandPath replaces a leading "~" segment of the path by the home
\* directory and returns every other path, absolute or relative, exactly as
\* it was given: no segment is cleaned, a "~" that is not the first segment
\* stays, and so does a first segment that only starts with "~"
C11_ExpandPath ==
    Expanded =>
        IF SplitPath(pathIn)[1] = Tilde
        THEN pathOut = pathHome \o Tail(pathIn)
        ELSE pathOut = pathIn

\* "~/a" was expanded to "/root/a"
C11_Witness ==
    /\ Expanded
    /\ pathIn = Tilde \o Slash \o W_a
    /\ pathOut = <<"/","r","o","o","t","/","a">>

(***************************************************************************)
(* The error layer.                                                        *)
(***************************************************************************)
\* layer i of e is the outermost structured error of the chain
Outermost(e, i) ==
    /\ i \in 1..Len(e)
    /\ e[i].kind = "structured"
    /\ \A j \in 1..(i - 1) : e[j].kind # "structured"

Unstructured(e) == \A i \in 1..Len(e) : e[i].kind # "structured"

\* C12: IsRecoverableError(err) is true only when err is, or wraps, a
\* structured error whose category is template-not-found, or one whose
\* category is output-failed and whose message mentions the clipboard; it
\* is false for every other category, for nil and for errors that hold no
\* structured error.  The category and message looked at are those of the
\* outermost structured error.
C12_IsRecoverableOnly ==
    recoverable.asked =>
        (recoverable.result <=>
            \E i \in 1..Len(recoverable.of) :
                /\ Outermost(recoverable.of, i)
                /\ \/ recoverable.of[i].type = ErrTemplateNotFound
                   \/ /\ recoverable.of[i].type = ErrOutputFailed
                      /\ Contains(recoverable.of[i].message, W_clipboard))

\* fmt.Errorf around a template-not-found error was found recoverable
C12_Witness ==
    /\ recoverable.asked
    /\ recoverable.result
    /\ Len(recoverable.of) = 2
    /\ recoverable.of[1].kind = "wrap"
    /\ recoverable.of[2].type = ErrTemplateNotFound

\* C13: RecoverFromError never swallows an error and never changes its
\* category: for an input that is or wraps a structured error, whatever the
\* state of the configuration directory, the result is a structured error
\* of the same Type; the result is nil only for a nil input.
C13_RecoverKeepsCategory ==
    recovery.called =>
        /\ recovery.out = Nil <=> recovery.in = Nil
        /\ \A i \in 1..Len(recovery.in) :
              Outermost(recovery.in, i) =>
                 /\ recovery.out # Nil
                 /\ recovery.out[1].kind = "structured"
                 /\ recovery.out[1].type = recovery.in[i].type

\* a configuration error came back as one after the directory was created
C13_Witness ==
    /\ recovery.called
    /\ recovery.in # Nil
    /\ recovery.in[1].type = ErrConfigurationInvalid
    /\ recovery.dir = "missing"
    /\ recovery.dirAfter = "exists"
    /\ recovery.out # Nil
    /\ recovery.out[1].type = ErrConfigurationInvalid

\* C14: for a non-nil error that neither is nor wraps a structured error,
\* RecoverFromError returns a structured error of the "unknown error"
\* category whose message is the text of the error, whose guidance is the
\* generic help text and whose cause is the error; the configuration
\* directory is not touched.
C14_UnknownIsWrapped ==
    (recovery.called /\ recovery.in # Nil /\ Unstructured(recovery.in)) =>
        /\ recovery.out =
              <<Layer("structured", ErrUnknown, ErrorText(recovery.in), G_Usage)>>
              \o recovery.in
        /\ recovery.mkdirs = 0
        /\ recovery.dirAfter = recovery.dir

\* "output failed: exit 1" was wrapped while the directory was missing
C14_Witness ==
    /\ recovery.called
    /\ recovery.in = Errorf(A_output_failed, New(E_exit_1))
    /\ recovery.home = "ok"
    /\ recovery.dir = "missing"
    /\ recovery.out # Nil
    /\ recovery.out[1].type = ErrUnknown
    /\ recovery.out[1].message = A_output_failed \o E_exit_1

\* an ordered list of rules, each a set of substrings and a guidance text:
\* the guidance of the first rule one of whose substrings occurs in text
Rule(substrings, guidance) == [substrings |-> substrings, guidance |-> guidance]

Matches(rule, text) == \E sub \in rule.substrings : Contains(text, sub)

FirstRule(rules, text, generic) ==
    IF \E i \in 1..Len(rules) : Matches(rules[i], text)
    THEN rules[CHOOSE i \in 1..Len(rules) :
                  /\ Matches(rules[i], text)
                  /\ \A j \in 1..(i - 1) : ~Matches(rules[j], text)].guidance
    ELSE generic

\* the substring rules of each constructor, for its argument arg
SubstringRules(ctor, arg) ==
    CASE ctor = "NewConfigurationError" ->
            <<Rule({S_permission}, G_ConfigurationPermission),
              Rule({S_not_found, S_does_not_exist}, G_ConfigurationNotFound)>>
      [] ctor = "NewTemplateError" ->
            <<Rule({S_not_found}, F_TemplateGuidance1 \o arg \o F_TemplateNotFound2),
              Rule({S_parse, S_syntax}, F_TemplateGuidance1 \o arg \o F_TemplateSyntax2)>>
      [] ctor = "NewContentCollectionError" ->
            <<Rule({S_permission}, F_ContentPermission1 \o arg \o F_ContentPermission2),
              Rule({S_not_found, S_does_not_exist},
                   F_ContentNotFound1 \o arg \o F_ContentNotFound2)>>
      [] ctor = "NewFixModeError" ->
            <<Rule({S_not_found, S_does_not_exist}, G_FixModeNotFound),
              Rule({S_empty}, G_FixModeEmpty)>>
      [] ctor = "NewOutputError" ->
            <<Rule({S_editor}, G_OutputEditor)>>

GenericGuidance(ctor) ==
    CASE ctor = "NewConfigurationError" -> G_Configuration
      [] ctor = "NewTemplateError" -> G_Template
      [] ctor = "NewContentCollectionError" -> G_ContentCollection
      [] ctor = "NewFixModeError" -> G_FixMode
      [] ctor = "NewOutputError" -> G_Output

GuidanceConstructors ==
    {"NewConfigurationError", "NewTemplateError", "NewContentCollectionError",
     "NewFixModeError", "NewOutputError"}

\* one of the five constructors returned an error
Constructed == made.ctor \in GuidanceConstructors /\ ~made.panic

\* C15, as first stated: every constructor chooses the guidance by matching
\* the text of the cause against its ordered substrings; the first rule that
\* matches gives the guidance, the generic guidance is used exactly when
\* none does
C15_GuidanceFromCauseText ==
    (Constructed /\ made.cause # Nil) =>
        made.out[1].guidance =
            FirstRule(SubstringRules(made.ctor, made.arg), ErrorText(made.cause),
                      GenericGuidance(made.ctor))

\* C15, amended: each constructor goes through its rules in order and the
\* first that holds gives the guidance, the generic guidance being used
\* exactly when none holds.  The rules of the template, content-collection
\* and fix-mode constructors are substrings of the cause's text; those of
\* the configuration constructor are substrings of the message it is given;
\* the output constructor first compares the target with "clipboard", then
\* tests it for the prefix "file:", and only then looks for "editor" in the
\* cause's text.
C15_GuidanceByRules ==
    Constructed =>
        made.out[1].guidance =
            CASE made.ctor = "NewConfigurationError" ->
                    FirstRule(SubstringRules(made.ctor, made.arg), made.arg,
                              GenericGuidance(made.ctor))
              [] made.ctor = "NewOutputError" /\ made.arg = W_clipboard ->
                    G_OutputClipboard
              [] made.ctor = "NewOutputError" /\ made.arg # W_clipboard
                 /\ HasPrefix(made.arg, FilePrefix) ->
                    G_OutputFile
              [] OTHER ->
                    FirstRule(SubstringRules(made.ctor, made.arg), ErrorText(made.cause),
                              GenericGuidance(made.ctor))

\* NewConfigurationError("not found: permission", errors.New("exit 1")) gave
\* the guidance of the permission rule
C15_Witness ==
    /\ Constructed
    /\ made.ctor = "NewConfigurationError"
    /\ made.arg = E_not_found_permission
    /\ made.cause = New(E_exit_1)
    /\ made.out[1].guidance = G_ConfigurationPermission

\* the guidance of the outermost structured error of e, <<>> when there is none
GuidanceOf(e) ==
    IF Unstructured(e) THEN <<>>
    ELSE e[CHOOSE i \in 1..Len(e) : Outermost(e, i)].guidance

\* RecoverFromError was handed an error whose outermost structured error is
\* a configuration error
RecoveredConfig ==
    /\ recovery.called
    /\ \E i \in 1..Len(recovery.in) :
          Outermost(recovery.in, i) /\ recovery.in[i].type = ErrConfigurationInvalid

\* the guidance says that the configuration directory was created
ReportsCreated(g) == Contains(ToLower(g), <<"c","r","e","a","t","e","d">>)

\* the words by which a guidance says that something did not succeed
FailureWords ==
    {<<"f","a","i","l">>, <<"c","o","u","l","d"," ","n","o","t">>,
     <<"c","a","n","n","o","t">>, <<"u","n","a","b","l","e">>, <<"e","r","r","o","r">>}

\* the guidance reports a failure
ReportsFailure(g) == \E w \in FailureWords : Contains(ToLower(g), w)

\* C16: RecoverFromError on a configuration error changes the filesystem at
\* most once, by creating the configuration directory, and only when that
\* directory does not exist; the guidance of the returned error reports that
\* the directory was created exactly when that creation succeeded, it
\* reports continued failure when the creation failed, and nothing is
\* attempted a second time.
C16_ConfigRecovery ==
    RecoveredConfig =>
        /\ recovery.mkdirs <= 1
        /\ recovery.mkdirs = 1 => recovery.home = "ok" /\ recovery.dir = "missing"
        /\ recovery.dirAfter # recovery.dir =>
              recovery.mkdirs = 1 /\ recovery.mkdirOk /\ recovery.dirAfter = "exists"
        /\ (recovery.mkdirs = 1 /\ recovery.mkdirOk) <=>
              ReportsCreated(GuidanceOf(recovery.out))
        /\ (recovery.mkdirs = 1 /\ ~recovery.mkdirOk) =>
              /\ ReportsFailure(GuidanceOf(recovery.out))
              /\ recovery.dirAfter = "missing"

\* RecoverFromError was handed an error that is or wraps a structured error
RecoveredStructured == recovery.called /\ ~Unstructured(recovery.in)

\* the position of the outermost structured error of the error handed in
StructuredAt == CHOOSE i \in 1..Len(recovery.in) : Outermost(recovery.in, i)

\* C23: a structured error is immutable except for its guidance:
\* RecoverFromError on a structured error leaves its category, its message
\* and its cause as they were, in every branch of the dispatch and whatever
\* happens on the filesystem; only the Guidance field may be rewritten,
\* both in the error returned and in the error the caller holds.
C23_OnlyGuidanceRewritten ==
    RecoveredStructured =>
        /\ Len(recovery.out) = Len(recovery.in) - StructuredAt + 1
        /\ recovery.out[1].kind = "structured"
        /\ recovery.out[1].type = recovery.in[StructuredAt].type
        /\ recovery.out[1].message = recovery.in[StructuredAt].message
        /\ \A j \in 2..Len(recovery.out) :
              recovery.out[j] = recovery.in[StructuredAt + j - 1]
        /\ Len(err) = Len(recovery.in)
        /\ \A j \in 1..Len(err) :
              IF j = StructuredAt
              THEN err[j] = recovery.out[1]
              ELSE err[j] = recovery.in[j]

\* a clipboard output error with a cause came back with another guidance,
\* and with the same message and cause
C23_Witness ==
    /\ RecoveredStructured
    /\ Len(recovery.in) = 2
    /\ recovery.in[1].type = ErrOutputFailed
    /\ recovery.in[2].kind = "plain"
    /\ recovery.out[1].guidance # recovery.in[1].guidance
    /\ recovery.out[1].message = recovery.in[1].message
    /\ recovery.out[2] = recovery.in[2]

\* NewTemplateError returned an error for a cause whose text says "not found"
TemplateNotFoundMade ==
    /\ made.ctor = "NewTemplateError"
    /\ ~made.panic
    /\ made.cause # Nil
    /\ Contains(ErrorText(made.cause), S_not_found)

\* C24: a template failure whose cause text says the template was "not
\* found", built with NewTemplateError, is the recoverable
\* template-not-found case: IsRecoverableError returns true for it and
\* RecoverFromError hands it to the template recovery, which advises to
\* continue without the template
C24_TemplateNotFoundRecoverable ==
    TemplateNotFoundMade =>
        /\ (recoverable.asked /\ recoverable.of = made.out) => recoverable.result
        /\ (recovery.called /\ recovery.in = made.out) =>
              recovery.out[1].guidance = G_RecoverTemplate

\* NewOutputError returned an error
OutputErrorMade == made.ctor = "NewOutputError" /\ ~made.panic

\* C25: for every error built by NewOutputError(target, cause),
\* IsRecoverableError is true, and RecoverFromError rewrites the guidance
\* to the stdout-fallback text, exactly when target is the clipboard; for
\* a "file:<path>" target or an editor the error is not recoverable and
\* keeps the guidance the constructor chose
C25_OutputRecoverableIffClipboard ==
    OutputErrorMade =>
        /\ (recoverable.asked /\ recoverable.of = made.out) =>
              (recoverable.result <=> made.arg = W_clipboard)
        /\ (recovery.called /\ recovery.in = made.out) =>
              recovery.out[1].guidance =
                  IF made.arg = W_clipboard THEN G_RecoverOutput
                  ELSE made.out[1].guidance

Constructors ==
    GuidanceConstructors \cup {"NewValidationError"}

\* C26: the cause of a structured error is optional: each of the six
\* constructors returns a structured error with its category, a message and
\* a guidance that is not empty, for every combination of arguments, a nil
\* cause included; construction never fails
C26_ConstructionNeverFails ==
    made.ctor \in Constructors =>
        /\ ~made.panic
        /\ made.out # Nil
        /\ made.out[1].kind = "structured"
        /\ made.out[1].type \in ErrorTypes
        /\ made.out[1].message # <<>>
        /\ made.out[1].guidance # <<>>
        /\ Tail(made.out) = made.cause

\* C30: RecoverFromError is idempotent: for every error e and every
\* filesystem state in which the creation of the directory has a fixed
\* outcome, RecoverFromError(RecoverFromError(e)) has the category, the
\* message, the guidance and the cause of RecoverFromError(e), and the
\* second application changes nothing on the filesystem after a first one
\* that created the directory
C30_RecoverIdempotent ==
    recovery.again =>
        /\ Len(recovery.out2) = Len(recovery.out)
        /\ \A j \in 1..Len(recovery.out) :
              /\ recovery.out2[j].kind = recovery.out[j].kind
              /\ recovery.out2[j].type = recovery.out[j].type
              /\ recovery.out2[j].message = recovery.out[j].message
              /\ recovery.out2[j].guidance = recovery.out[j].guidance
        /\ recovery.dir2 = recovery.dirAfter
        /\ (recovery.mkdirs = 1 /\ recovery.mkdirOk) => recovery.mkdirs2 = 0

\* a configuration error was recovered twice: the first call created the
\* directory, the second found it and returned the same error
C30_Witness ==
    /\ recovery.again
    /\ recovery.in # Nil
    /\ recovery.in[1].type = ErrConfigurationInvalid
    /\ recovery.dir = "missing"
    /\ recovery.mkdirs = 1
    /\ recovery.mkdirOk
    /\ recovery.out[1].guidance = G_RecoverConfigCreated
    /\ recovery.out2 = recovery.out
    /\ recovery.mkdirs2 = 0
    /\ recovery.dir2 = "exists"

(***************************************************************************)
(* Run and CollectMissingInputs.                                           *)
(***************************************************************************)
\* C17: Run calls its steps in the order load configuration, collect
\* missing inputs, generate prompt, output prompt; each step is called at
\* most once and only after every earlier step succeeded; the first step
\* that fails ends the run: no later step is called, nothing is output
\* after a failed load, collection or generation, and no step is called
\* again.
C17_RunStepsInOrder ==
    /\ Len(runCalls) <= Len(RunSteps)
    /\ \A i \in 1..Len(runCalls) : runCalls[i].step = RunSteps[i]
    /\ \A i \in 1..Len(runCalls) :
          ~runCalls[i].ok => i = Len(runCalls) /\ runPc = "return"

\* generation failed after two steps that succeeded, and Run returned
\* without calling OutputPrompt
C17_Witness ==
    /\ runPc = "return"
    /\ Len(runCalls) = 3
    /\ runCalls[1].ok
    /\ runCalls[2].ok
    /\ runCalls[3].step = "GeneratePrompt"
    /\ ~runCalls[3].ok
    /\ runErr # Nil

\* C18: Run returns no error exactly when its four steps succeeded, and
\* when a step failed, whatever the step, the error it returns is or wraps
\* a structured error with a category and a guidance that is not empty
C18_RunReturnsStructured ==
    runPc = "return" =>
        /\ runErr = Nil <=>
              /\ Len(runCalls) = Len(RunSteps)
              /\ \A i \in 1..Len(runCalls) : runCalls[i].ok
        /\ runErr # Nil =>
              \E i \in 1..Len(runErr) :
                  /\ runErr[i].kind = "structured"
                  /\ runErr[i].type # <<>>
                  /\ runErr[i].guidance # <<>>

\* C19: when request.Interactive is false, CollectMissingInputs asks no
\* question, returns no error and leaves every field of the request as it
\* was, whatever the other fields are
C19_NonInteractiveUntouched ==
    (collected.called /\ ~collected.entry.Interactive) =>
        /\ collected.asked = <<>>
        /\ collected.err = Nil
        /\ runRequest = collected.entry

\* a request with no base prompt and no template, over a pre directory that
\* cannot be read, went through without a question and without an error
C19_Witness ==
    /\ collected.called
    /\ ~collected.entry.Interactive
    /\ ~collected.entry.FixMode
    /\ collected.entry.BasePrompt = <<>>
    /\ collected.entry.PreTemplate = <<>>
    /\ fs["pre"] = Unreadable
    /\ collected.err = Nil
    /\ runRequest.BasePrompt = <<>>

\* C27: in fix mode the interactive collector asks nothing: when
\* request.Interactive and request.FixMode are both true,
\* CollectMissingInputs asks neither for the base prompt nor for a
\* pre-template, a post-template or the directory, returns no error and
\* leaves the request as it was
C27_FixModeAsksNothing ==
    (collected.called /\ collected.entry.Interactive /\ collected.entry.FixMode) =>
        /\ collected.asked = <<>>
        /\ collected.err = Nil
        /\ runRequest = collected.entry

\* an interactive fix-mode request with nothing filled in, over a pre
\* directory that cannot be read, went through as it was
C27_Witness ==
    /\ collected.called
    /\ collected.entry.Interactive
    /\ collected.entry.FixMode
    /\ collected.entry.BasePrompt = <<>>
    /\ collected.entry.PreTemplate = <<>>
    /\ collected.entry.PostTemplate = <<>>
    /\ collected.entry.Directory = <<>>
    /\ collected.entry.Files = <<>>
    /\ fs["pre"] = Unreadable
    /\ collected.err = Nil
    /\ collected.asked = <<>>

\* the questions of CollectMissingInputs, in the order it asks them, and the
\* text it puts before the error of each
Questions == <<"base prompt", "pre-template", "post-template", "directory">>
FailurePrefix == <<P_failed_base, P_failed_pre, P_failed_post, P_failed_directory>>

\* the step at which the call failed
FailedStep ==
    CHOOSE k \in 1..Len(Questions) : collected.err[1].message = FailurePrefix[k]

\* question k was missing on entry and the request not in fix mode
MissingOnEntry(k) ==
    /\ collected.entry.Interactive
    /\ ~collected.entry.FixMode
    /\ CASE k = 1 -> collected.entry.BasePrompt = <<>>
         [] k = 2 -> collected.entry.PreTemplate = <<>>
         [] k = 3 -> collected.entry.PostTemplate = <<>>
         [] k = 4 -> collected.entry.Directory = <<>> /\ collected.entry.Files = <<>>

\* C28: CollectMissingInputs only fills in what is missing: after any run,
\* successful or failed, a BasePrompt, PreTemplate or PostTemplate that was
\* not empty on entry is unchanged, Directory is set only when Directory and
\* Files were both empty on entry, and Files, FixMode, Interactive, Target
\* and Editor are never modified; the questions are asked in the order base
\* prompt, pre-template, post-template, directory, and the first error of a
\* question stops the remaining ones
C28_OnlyMissingFilledIn ==
    collected.called =>
        /\ collected.entry.BasePrompt # <<>> =>
              runRequest.BasePrompt = collected.entry.BasePrompt
        /\ collected.entry.PreTemplate # <<>> =>
              runRequest.PreTemplate = collected.entry.PreTemplate
        /\ collected.entry.PostTemplate # <<>> =>
              runRequest.PostTemplate = collected.entry.PostTemplate
        /\ runRequest.Directory # collected.entry.Directory =>
              collected.entry.Directory = <<>> /\ collected.entry.Files = <<>>
        /\ runRequest.Files = collected.entry.Files
        /\ runRequest.FixMode = collected.entry.FixMode
        /\ runRequest.Interactive = collected.entry.Interactive
        /\ runRequest.Target = collected.entry.Target
        /\ runRequest.Editor = collected.entry.Editor
        /\ \A i, j \in 1..Len(collected.asked) :
              i < j =>
                 \E k, l \in 1..Len(Questions) :
                    /\ k < l
                    /\ collected.asked[i] = Questions[k]
                    /\ collected.asked[j] = Questions[l]
        /\ \A k \in 1..Len(Questions) :
              (\E i \in 1..Len(collected.asked) : collected.asked[i] = Questions[k])
                 => MissingOnEntry(k)
        /\ collected.err # Nil =>
              /\ \E k \in 1..Len(Questions) : collected.err[1].message = FailurePrefix[k]
              /\ \A i \in 1..Len(collected.asked), k \in 1..Len(Questions) :
                    collected.asked[i] = Questions[k] => k <= FailedStep
        /\ collected.err = Nil =>
              \A k \in 1..Len(Questions) :
                 MissingOnEntry(k) => \E i \in 1..Len(collected.asked) : collected.asked[i] = Questions[k]

\* the base prompt was typed, and ctrl-c at the pre-template menu stopped
\* the post-template and directory questions; the target and editor of the
\* command line are as they were
C28_Witness ==
    /\ collected.called
    /\ collected.entry.BasePrompt = <<>>
    /\ collected.entry.PostTemplate = <<>>
    /\ collected.entry.Directory = <<>>
    /\ collected.entry.Files = <<>>
    /\ collected.entry.Target = W_stdout
    /\ collected.asked = <<"base prompt", "pre-template">>
    /\ collected.err # Nil
    /\ runRequest.BasePrompt = W_fix_it
    /\ runRequest.PostTemplate = <<>>
    /\ runRequest.Directory = <<>>
    /\ runRequest.Target = W_stdout
    /\ runRequest.Editor = W_vim

(***************************************************************************)
(* truncateString.                                                         *)
(***************************************************************************)
\* C20: for every string s and every maxLen >= 3, the truncation of s to
\* maxLen is at most maxLen long and is s exactly when len(s) <= maxLen;
\* when len(s) > maxLen it is the first maxLen-3 characters of s followed
\* by "..."
C20_Truncate ==
    (truncOut.called /\ truncLen >= 3) =>
        /\ ~truncOut.result.panic
        /\ Len(truncOut.result.value) <= truncLen
        /\ truncOut.result.value = truncIn <=> Len(truncIn) <= truncLen
        /\ Len(truncIn) > truncLen =>
              /\ Len(truncOut.result.value) = truncLen
              /\ \A i \in 1..(truncLen - 3) : truncOut.result.value[i] = truncIn[i]
              /\ \A i \in (truncLen - 2)..truncLen : truncOut.result.value[i] = "."

\* "aaaaaa" cut to 4 is "a..."
C20_Witness ==
    /\ truncOut.called
    /\ truncIn = <<"a", "a", "a", "a", "a", "a">>
    /\ truncLen = 4
    /\ truncOut.result.value = <<"a", ".", ".", ".">>

(***************************************************************************)
(* The template helpers indent and dedent.                                 *)
(***************************************************************************)
LinesIn == Split(helperIn, NewLine)
LinesOut == Split(helperOut[1], NewLine)
\* the lines that hold a character other than a space
NonBlank(lines) == {i \in 1..Len(lines) : \E j \in 1..Len(lines[i]) : lines[i][j] # Space}
\* line `to` is line `from` with exactly k spaces put in front of it
Prefixed(from, to, k) ==
    /\ Len(to) = Len(from) + k
    /\ \A j \in 1..k : to[j] = Space
    /\ \A j \in 1..Len(from) : to[k + j] = from[j]

\* C21: for every n >= 0 and every text s, indent(n, s) keeps the number
\* and order of lines, prefixes every non-empty line with exactly n space
\* characters and leaves every blank line untouched (not padded)
C21_Indent ==
    helperCall = "indent" =>
        /\ Len(LinesOut) = Len(LinesIn)
        /\ \A i \in 1..Len(LinesIn) :
              IF LinesIn[i] # <<>>
              THEN Prefixed(LinesIn[i], LinesOut[i], helperN)
              ELSE LinesOut[i] = <<>>

\* indent(2, "a\n\na") is "  a\n\n  a"
C21_Witness ==
    /\ helperCall = "indent"
    /\ helperN = 2
    /\ helperIn = <<"a", NewLine, NewLine, "a">>
    /\ helperOut[1] = <<Space, Space, "a", NewLine, NewLine, Space, Space, "a">>

\* the fewest leading spaces of a non-blank line of the text handed in; 0
\* when it has no such line
LeastIndent ==
    IF NonBlank(LinesIn) = {} THEN 0
    ELSE CHOOSE m \in 0..MaxTextLen + 1 :
            /\ \E i \in NonBlank(LinesIn) : LeadingSpaces(LinesIn[i]) = m
            /\ \A i \in NonBlank(LinesIn) : LeadingSpaces(LinesIn[i]) >= m

\* C22: for every text s, dedent(s) strips from every non-blank line
\* exactly m leading spaces, m being the minimum leading-space count over
\* the non-blank lines, and leaves blank lines (empty or of spaces only)
\* untouched; it returns s unchanged when m is zero, and
\* dedent(dedent(s)) = dedent(s)
C22_Dedent ==
    /\ helperCall \in {"dedent", "dedent again"} =>
          /\ Len(LinesOut) = Len(LinesIn)
          /\ \A i \in 1..Len(LinesIn) :
                IF i \in NonBlank(LinesIn)
                THEN Prefixed(LinesOut[i], LinesIn[i], LeastIndent)
                ELSE LinesOut[i] = LinesIn[i]
          /\ LeastIndent = 0 => helperOut[1] = helperIn
    /\ helperCall = "dedent again" => helperOut[2] = helperOut[1]

\* dedent("  a\n ") is "a\n ", the line of one space untouched, and so is
\* the dedent of that
C22_Witness ==
    /\ helperCall = "dedent again"
    /\ helperIn = <<Space, Space, "a", NewLine, Space>>
    /\ helperOut[1] = <<"a", NewLine, Space>>
    /\ helperOut[2] = helperOut[1]


====
